---- MODULE Spec2Model ----
(***************************************************************************)
(* A model of the statsig node-js-lite server SDK core: the SpecStore      *)
(* (catalog synchronisation, pollers, watchdog, shutdown), the Evaluator   *)
(* (overrides, rule interpretation, secondary exposures) and the part of   *)
(* StatsigServer that drives them (initializeAsync, _validateInputs,       *)
(* shutdown).                                                              *)
(*                                                                         *)
(* JavaScript runs each handler to completion between two awaits, so one   *)
(* action is one such segment: a host call up to its first await, or the   *)
(* continuation that runs when an awaited response arrives.                *)
(***************************************************************************)
EXTENDS Integers, Sequences, FiniteSets, TLC

VARIABLES
    options,                        \* ExplicitStatsigOptions, fixed at construction
    store,                          \* SpecStore.store : ConfigStore
    lastUpdateTime,                 \* SpecStore.lastUpdateTime
    initialUpdateTime,              \* SpecStore.initialUpdateTime
    initReason,                     \* SpecStore.initReason
    samplingRates,                  \* SpecStore.samplingRates
    syncFailureCount,               \* SpecStore.syncFailureCount
    initialized,                    \* SpecStore.initialized
    syncTimer,                      \* SpecStore.syncTimer        (NULL or a timer id)
    idListsSyncTimer,               \* SpecStore.idListsSyncTimer (NULL or a timer id)
    liveTimers,                     \* interval timers that setInterval created and nobody cleared
    syncTimerLastActiveTime,        \* SpecStore.syncTimerLastActiveTime
    idListsSyncTimerLastActiveTime, \* SpecStore.idListsSyncTimerLastActiveTime
    now,                            \* Date.now()
    initPc,                         \* where SpecStore.init is suspended
    specFetches,                    \* syncValues calls suspended in their fetch, per continuation
    idListSyncs,                    \* syncIdLists calls suspended in the manifest POST, per continuation
    idListFetches,                  \* genFetchIDList calls suspended in their ranged GET
    lazyIdLists,                    \* init's setTimeout(_initIDLists, 0) has not fired yet
    ready,                          \* StatsigServer._ready
    pendingInitPromise,             \* StatsigServer._pendingInitPromise != null
    shutdownCalled,                 \* history: StatsigServer.shutdown has run
    initTimeouts,                   \* initTimeoutMs timers of initializeAsync that have not fired
    gateOverrides,                  \* Evaluator.gateOverrides
    configOverrides,                \* Evaluator.configOverrides
    layerOverrides,                 \* Evaluator.layerOverrides
    hashLookupTable,                \* the module-level hashLookupTable of computeUserHash
    last,                           \* what the last step did: the observations the properties read
    returned                        \* the evaluation the last check call got from the Evaluator

storeVars == <<store, lastUpdateTime, initialUpdateTime, initReason, samplingRates>>
timerVars == <<syncTimer, idListsSyncTimer, liveTimers>>
clockVars == <<syncTimerLastActiveTime, idListsSyncTimerLastActiveTime, now>>
taskVars  == <<initPc, specFetches, idListSyncs, idListFetches, lazyIdLists>>
serverVars == <<ready, pendingInitPromise, shutdownCalled>>
overrideVars == <<gateOverrides, configOverrides, layerOverrides>>
vars == <<options, storeVars, syncFailureCount, initialized, timerVars, clockVars,
          taskVars, serverVars, initTimeouts, overrideVars, hashLookupTable, last,
          returned>>

(***************************************************************************)
(* JavaScript values.                                                      *)
(***************************************************************************)
NULL == "null"
Undefined == "undefined"

\* a ?? b
Coalesce(a, b) == IF a = NULL \/ a = Undefined THEN b ELSE a

\* The empty object {} as a map.
EmptyMap == [n \in {} |-> NULL]

\* obj[key] = value on a copy
MapSet(m, k, v) == [n \in (DOMAIN m) \cup {k} |-> IF n = k THEN v ELSE m[n]]

\* delete obj[key] on a copy
MapDelete(m, k) == [n \in (DOMAIN m) \ {k} |-> m[n]]

(***************************************************************************)
(* Program constants.                                                      *)
(***************************************************************************)
SYNC_OUTDATED_MAX == 120000
MAX_SAMPLING_RATE == 10000
CONDITION_SEGMENT_COUNT == 10000
USER_BUCKET_COUNT == 1000

(***************************************************************************)
(* Bounds of the model.                                                    *)
(***************************************************************************)
\* Date.now() advances in steps of ClockStep ms, up to MaxNow.
ClockStep == 60000
MaxNow == 180000
\* syncValues calls that may be suspended in their fetch at once
MaxSpecFetches == 1
\* syncIdLists calls that may be suspended in the manifest request at once
MaxIdListSyncs == 1
\* ranged GETs of ID lists that may be in flight at once
MaxIdListFetches == 1
\* syncs, and ranged GETs, that may be in flight at once where overlapping
\* ID-list syncs are followed
MaxOverlap == 2
\* computeUserHash clears its table when a miss finds more than this many
\* entries (100000 in the code, scaled down)
HashLookupLimit == 2
\* syncFailureCount is not followed beyond this value
MaxFailures == 2
\* frames an evaluation may nest before the engine raises RangeError
MaxStackDepth == 6

(***************************************************************************)
(* Spec JSON.  A condition, a rule and a spec carry the attributes the     *)
(* evaluator reads.  `constructible` is FALSE for an array entry on which  *)
(* `new ConfigSpec(json)` throws (a null entry, for one).                  *)
(***************************************************************************)
\* targetValue is a sequence: <<>> for null, <<v>> for the string v, the
\* elements for an array (targetIsArray tells the last two apart).
ConfigCondition(type, targetValue, targetIsArray, operator, field) ==
    [type |-> type, targetValue |-> targetValue, targetIsArray |-> targetIsArray,
     operator |-> operator, field |-> field, idType |-> "userID"]

ConfigRule(id, passPercentage, conditions, configDelegate, groupName) ==
    [id |-> id, salt |-> id, passPercentage |-> passPercentage,
     returnValue |-> <<"returnValue", id>>, idType |-> "userID",
     groupName |-> groupName, isExperimentGroup |-> groupName # NULL,
     configDelegate |-> configDelegate, conditions |-> conditions]

ConfigSpec(name, enabled, rules) ==
    [name |-> name, enabled |-> enabled, salt |-> name,
     defaultValue |-> <<"defaultValue", name>>, idType |-> "userID",
     rules |-> rules, explicitParameters |-> <<"param", name>>,
     constructible |-> TRUE]

\* An array entry the ConfigSpec constructor throws on.
BadSpecJSON == [ConfigSpec("", FALSE, <<>>) EXCEPT !.constructible = FALSE]

Public == ConfigCondition("public", <<>>, FALSE, NULL, NULL)
PassGate(g) == ConfigCondition("pass_gate", <<g>>, FALSE, NULL, NULL)
FailGate(g) == ConfigCondition("fail_gate", <<g>>, FALSE, NULL, NULL)
MultiPassGate(gs) == ConfigCondition("multi_pass_gate", gs, TRUE, NULL, NULL)
MultiFailGate(gs) == ConfigCondition("multi_fail_gate", gs, TRUE, NULL, NULL)
UserField(field, op, target) == ConfigCondition("user_field", <<target>>, FALSE, op, field)

(***************************************************************************)
(* download_config_specs payloads.  An optional number is <<>> when it is  *)
(* absent and <<n>> when it is n.  `notArray` names the one of             *)
(* feature_gates / dynamic_configs / layer_configs that is not an array    *)
(* ("" when all three are).  `layers` lists the entries of the layers      *)
(* object in order; an entry whose value cannot be iterated has            *)
(* iterable = FALSE.                                                       *)
(***************************************************************************)
Payload(has_updates, time, gates, configs, layerSpecs, layers) ==
    [has_updates |-> has_updates, time |-> time, notArray |-> "",
     feature_gates |-> gates, dynamic_configs |-> configs,
     layer_configs |-> layerSpecs, layers |-> layers, diagnostics |-> <<>>]

LayerEntry(layer, experiments) ==
    [layer |-> layer, experiments |-> experiments, iterable |-> TRUE]

(***************************************************************************)
(* SpecStore._process and what it calls.                                   *)
(***************************************************************************)
\* safeSet: only numbers are taken, clamped to [0, MAX_SAMPLING_RATE]
safeSet(samplingRate, value) ==
    IF value = <<>> THEN samplingRate
    ELSE IF value[1] < 0 THEN 0
    ELSE IF value[1] > MAX_SAMPLING_RATE THEN MAX_SAMPLING_RATE
    ELSE value[1]

updateSamplingRates(rates, obj) ==
    IF obj = <<>> THEN rates
    ELSE [k \in DOMAIN rates |-> safeSet(rates[k], obj[1][k])]

\* for (const json of array) { const s = new ConfigSpec(json); updated[s.name] = s }
\* A later entry of the same name replaces an earlier one.
SpecMap(array) ==
    [n \in {array[i].name : i \in DOMAIN array} |->
        array[CHOOSE i \in DOMAIN array :
                /\ array[i].name = n
                /\ \A j \in DOMAIN array : array[j].name = n => j <= i]]

AllConstructible(array) == \A i \in DOMAIN array : array[i].constructible

RECURSIVE ReverseEntries(_, _)
ReverseEntries(entries, acc) ==
    IF entries = <<>> THEN acc
    ELSE LET e == Head(entries)
             exps == e.experiments
             acc2 == [x \in (DOMAIN acc) \cup {exps[i] : i \in DOMAIN exps} |->
                        IF \E i \in DOMAIN exps : exps[i] = x THEN e.layer ELSE acc[x]]
         IN ReverseEntries(Tail(entries), acc2)

\* _reverseLayerExperimentMapping: experiment -> layer; throws when a value of
\* the layers object is not iterable.
reverseLayerExperimentMappingThrows(layersMapping) ==
    \E i \in DOMAIN layersMapping : ~layersMapping[i].iterable

reverseLayerExperimentMapping(layersMapping) ==
    ReverseEntries(layersMapping, EmptyMap)

\* The value _process gives lastUpdateTime on commit: time ?? lastUpdateTime
\* A time that adds up over the payloads taken.
CommittedTimeSummed(specsJSON, lut) ==
    IF specsJSON.time = <<>> THEN lut ELSE lut + specsJSON.time[1]

CommittedTime(specsJSON, lut) ==
    IF specsJSON.time = <<>> THEN lut ELSE specsJSON.time[1]

\* A store that takes a payload whatever its time.
NeverOlder(specsJSON, lut) == FALSE

\* A store that also turns down a payload of its own time.
IsOlderOrSame(specsJSON, lut) ==
    specsJSON.time # <<>> /\ specsJSON.time[1] <= lut

\* specsJSON.time !== undefined && Number(specsJSON.time) < this.lastUpdateTime
IsOlder(specsJSON, lut) ==
    specsJSON.time # <<>> /\ specsJSON.time[1] < lut

\* What _process leaves behind: the outcome ("true", "false", or "throw" for
\* an exception leaving it) and the three fields afterwards.
ProcessOutcome(result, st, lut, rates) ==
    [result |-> result, store |-> st, lastUpdateTime |-> lut, samplingRates |-> rates]

\* A _process that installs each map as soon as it is built, and the time
\* first: a spec that cannot be constructed then leaves a partial update.
ProcessUpdatesInPlace(specsJSON, st, lut, rates) ==
    IF specsJSON.notArray # "" THEN ProcessOutcome("false", st, lut, rates)
    ELSE IF ~AllConstructible(specsJSON.feature_gates)
    THEN ProcessOutcome("false", st, CommittedTime(specsJSON, lut), rates)
    ELSE IF ~AllConstructible(specsJSON.dynamic_configs)
            \/ ~AllConstructible(specsJSON.layer_configs)
    THEN ProcessOutcome("false",
                        [st EXCEPT !.gates = SpecMap(specsJSON.feature_gates)],
                        CommittedTime(specsJSON, lut), rates)
    ELSE IF reverseLayerExperimentMappingThrows(specsJSON.layers)
    THEN ProcessOutcome("throw", st, lut, rates)
    ELSE ProcessOutcome("true",
             [st EXCEPT
                 !.gates = SpecMap(specsJSON.feature_gates),
                 !.configs = SpecMap(specsJSON.dynamic_configs),
                 !.layers = SpecMap(specsJSON.layer_configs),
                 !.experimentToLayer = reverseLayerExperimentMapping(specsJSON.layers)],
             CommittedTime(specsJSON, lut), rates)

\* A _process that starts the store over, ID lists included.
ProcessUpdatesFreshStore(specsJSON, st, lut, rates) ==
    IF specsJSON.notArray # "" THEN ProcessOutcome("false", st, lut, rates)
    ELSE IF ~AllConstructible(specsJSON.feature_gates)
            \/ ~AllConstructible(specsJSON.dynamic_configs)
            \/ ~AllConstructible(specsJSON.layer_configs)
    THEN ProcessOutcome("false", st, lut, rates)
    ELSE IF reverseLayerExperimentMappingThrows(specsJSON.layers)
    THEN ProcessOutcome("throw", st, lut, rates)
    ELSE ProcessOutcome("true",
             [gates |-> SpecMap(specsJSON.feature_gates),
              configs |-> SpecMap(specsJSON.dynamic_configs),
              idLists |-> EmptyMap,
              layers |-> SpecMap(specsJSON.layer_configs),
              experimentToLayer |-> reverseLayerExperimentMapping(specsJSON.layers)],
             CommittedTime(specsJSON, lut), rates)

\* A _process that installs gates, configs and layers and leaves
\* experimentToLayer as it was.
ProcessUpdatesThreeMaps(specsJSON, st, lut, rates) ==
    IF specsJSON.notArray # "" THEN ProcessOutcome("false", st, lut, rates)
    ELSE IF ~AllConstructible(specsJSON.feature_gates)
            \/ ~AllConstructible(specsJSON.dynamic_configs)
            \/ ~AllConstructible(specsJSON.layer_configs)
    THEN ProcessOutcome("false", st, lut, rates)
    ELSE IF reverseLayerExperimentMappingThrows(specsJSON.layers)
    THEN ProcessOutcome("throw", st, lut, rates)
    ELSE ProcessOutcome("true",
             [st EXCEPT
                 !.gates = SpecMap(specsJSON.feature_gates),
                 !.configs = SpecMap(specsJSON.dynamic_configs),
                 !.layers = SpecMap(specsJSON.layer_configs)],
             CommittedTime(specsJSON, lut), rates)

\* _process from `updateSamplingRates(specsJSON.diagnostics)` on
ProcessUpdates(specsJSON, st, lut, rates) ==
    IF specsJSON.notArray # "" THEN ProcessOutcome("false", st, lut, rates)
    ELSE IF ~AllConstructible(specsJSON.feature_gates)
            \/ ~AllConstructible(specsJSON.dynamic_configs)
            \/ ~AllConstructible(specsJSON.layer_configs)
    THEN ProcessOutcome("false", st, lut, rates)
    ELSE IF reverseLayerExperimentMappingThrows(specsJSON.layers)
    THEN ProcessOutcome("throw", st, lut, rates)
    ELSE ProcessOutcome("true",
             [st EXCEPT
                 !.gates = SpecMap(specsJSON.feature_gates),
                 !.configs = SpecMap(specsJSON.dynamic_configs),
                 !.layers = SpecMap(specsJSON.layer_configs),
                 !.experimentToLayer = reverseLayerExperimentMapping(specsJSON.layers)],
             CommittedTime(specsJSON, lut), rates)

\* _process on (store, lastUpdateTime, samplingRates)
_process(specsJSON, st, lut, rates) ==
    IF ~specsJSON.has_updates THEN ProcessOutcome("false", st, lut, rates)
    ELSE IF IsOlder(specsJSON, lut) THEN ProcessOutcome("false", st, lut, rates)
    ELSE ProcessUpdates(specsJSON, st, lut,
                        updateSamplingRates(rates, specsJSON.diagnostics))

(***************************************************************************)
(* What a fetch of the rulesets can come back with.  From the network      *)
(* (fetcher.get): "error" (the request rejects), "localModeError"          *)
(* (StatsigLocalModeNetworkError), "noResponse" (it resolves to nothing),   *)
(* "invalidJSON" (JSON.parse throws) or "json".  From the data adapter     *)
(* (dataAdapter.get): "error" (get rejects), "noResult" (no result, or an  *)
(* error field), "invalidJSON" or "json".                                  *)
(***************************************************************************)
Response(kind, json) == [kind |-> kind, json |-> json]

\* What a fetch of the rulesets leaves behind.  threw: an exception leaves
\* the method; processed: what _process returned ("none" when it was not
\* reached); callback / saved: rulesUpdatedCallback was invoked / the string
\* was handed to _saveConfigSpecsToAdapter.
FetchOutcome(threw, localMode, processed, st, lut, rates, reason, callback, saved) ==
    [threw |-> threw, localMode |-> localMode, processed |-> processed,
     store |-> st, lastUpdateTime |-> lut, samplingRates |-> rates,
     initReason |-> reason, callback |-> callback, saved |-> saved]

\* A network fetch that installs what it is given but leaves initReason.
_fetchConfigSpecsFromServerKeepsReason(resp, st, lut, rates, reason, opts) ==
    LET Processed(p) ==
            FetchOutcome(p.result = "throw", FALSE, p.result, p.store, p.lastUpdateTime,
                         p.samplingRates, reason,
                         p.result = "true" /\ opts.rulesUpdatedCallback,
                         p.result = "true" /\ opts.dataAdapter # NULL)
    IN  CASE resp.kind = "error" ->
                FetchOutcome(TRUE, FALSE, "none", st, lut, rates, reason, FALSE, FALSE)
          [] resp.kind = "localModeError" ->
                FetchOutcome(TRUE, TRUE, "none", st, lut, rates, reason, FALSE, FALSE)
          [] resp.kind = "noResponse" ->
                FetchOutcome(FALSE, FALSE, "none", st, lut, rates, reason, FALSE, FALSE)
          [] resp.kind = "invalidJSON" ->
                FetchOutcome(TRUE, FALSE, "none", st, lut, rates, reason, FALSE, FALSE)
          [] OTHER -> Processed(_process(resp.json, st, lut, rates))

\* A network fetch that tells the callback and the adapter of every payload
\* it processed, accepted or not.
_fetchConfigSpecsFromServerTellsAlways(resp, st, lut, rates, reason, opts) ==
    LET Processed(p) ==
            FetchOutcome(p.result = "throw", FALSE, p.result, p.store, p.lastUpdateTime,
                         p.samplingRates,
                         IF p.result = "true" THEN "Network" ELSE reason,
                         p.result # "throw" /\ opts.rulesUpdatedCallback,
                         p.result # "throw" /\ opts.dataAdapter # NULL)
    IN  CASE resp.kind = "error" ->
                FetchOutcome(TRUE, FALSE, "none", st, lut, rates, reason, FALSE, FALSE)
          [] resp.kind = "localModeError" ->
                FetchOutcome(TRUE, TRUE, "none", st, lut, rates, reason, FALSE, FALSE)
          [] resp.kind = "noResponse" ->
                FetchOutcome(FALSE, FALSE, "none", st, lut, rates, reason, FALSE, FALSE)
          [] resp.kind = "invalidJSON" ->
                FetchOutcome(TRUE, FALSE, "none", st, lut, rates, reason, FALSE, FALSE)
          [] OTHER -> Processed(_process(resp.json, st, lut, rates))

\* _fetchConfigSpecsFromServer from the point where fetcher.get settles.
_fetchConfigSpecsFromServer(resp, st, lut, rates, reason, opts) ==
    LET Processed(p) ==
            FetchOutcome(p.result = "throw", FALSE, p.result, p.store, p.lastUpdateTime,
                         p.samplingRates,
                         IF p.result = "true" THEN "Network" ELSE reason,
                         p.result = "true" /\ opts.rulesUpdatedCallback,
                         p.result = "true" /\ opts.dataAdapter # NULL)
    IN  CASE resp.kind = "error" ->
                FetchOutcome(TRUE, FALSE, "none", st, lut, rates, reason, FALSE, FALSE)
          [] resp.kind = "localModeError" ->
                FetchOutcome(TRUE, TRUE, "none", st, lut, rates, reason, FALSE, FALSE)
          [] resp.kind = "noResponse" ->
                FetchOutcome(FALSE, FALSE, "none", st, lut, rates, reason, FALSE, FALSE)
          [] resp.kind = "invalidJSON" ->
                FetchOutcome(TRUE, FALSE, "none", st, lut, rates, reason, FALSE, FALSE)
          [] OTHER -> Processed(_process(resp.json, st, lut, rates))

\* _fetchConfigSpecsFromAdapter from the point where dataAdapter.get settles.
_fetchConfigSpecsFromAdapter(resp, st, lut, rates, reason, opts) ==
    LET Processed(p) ==
            FetchOutcome(p.result = "throw", FALSE, p.result, p.store, p.lastUpdateTime,
                         p.samplingRates,
                         IF p.result = "true" THEN "DataAdapter" ELSE reason,
                         FALSE, FALSE)
    IN  CASE resp.kind = "error" ->
                FetchOutcome(TRUE, FALSE, "none", st, lut, rates, reason, FALSE, FALSE)
          [] resp.kind = "noResult" ->
                FetchOutcome(FALSE, FALSE, "none", st, lut, rates, reason, FALSE, FALSE)
          [] resp.kind = "invalidJSON" ->
                FetchOutcome(TRUE, FALSE, "none", st, lut, rates, reason, FALSE, FALSE)
          [] OTHER -> Processed(_process(resp.json, st, lut, rates))

\* adapter?.supportsPollingUpdatesFor?.(key) === true
shouldSyncFromAdapter(opts) == opts.dataAdapter = "polling"

\* A syncValues that warns without starting its count again.
syncValuesWarnsWithoutReset(resp, isColdStart, st, lut, rates, reason, failures, opts) ==
    LET Settled(f) ==
            LET warns == ~f.localMode /\ ~isColdStart
                         /\ (failures + 1) * opts.rulesetsSyncIntervalMs > SYNC_OUTDATED_MAX
            IN  [fetch |-> f,
                 syncFailureCount |-> IF ~f.threw THEN 0 ELSE failures + 1,
                 logged |-> IF ~f.threw \/ f.localMode THEN ""
                            ELSE IF isColdStart THEN "error"
                            ELSE IF warns THEN "warn" ELSE ""]
    IN  Settled(IF shouldSyncFromAdapter(opts)
                THEN _fetchConfigSpecsFromAdapter(resp, st, lut, rates, reason, opts)
                ELSE _fetchConfigSpecsFromServer(resp, st, lut, rates, reason, opts))

\* syncValues from the point where its fetch settles: the fetch's outcome, the
\* failure counter afterwards and what was logged ("error", "warn" or "").
syncValues(resp, isColdStart, st, lut, rates, reason, failures, opts) ==
    LET Settled(f) ==
            LET warns == ~f.localMode /\ ~isColdStart
                         /\ (failures + 1) * opts.rulesetsSyncIntervalMs > SYNC_OUTDATED_MAX
            IN  [fetch |-> f,
                 syncFailureCount |-> IF ~f.threw THEN 0
                                      ELSE IF warns THEN 0 ELSE failures + 1,
                 logged |-> IF ~f.threw \/ f.localMode THEN ""
                            ELSE IF isColdStart THEN "error"
                            ELSE IF warns THEN "warn" ELSE ""]
    IN  Settled(IF shouldSyncFromAdapter(opts)
                THEN _fetchConfigSpecsFromAdapter(resp, st, lut, rates, reason, opts)
                ELSE _fetchConfigSpecsFromServer(resp, st, lut, rates, reason, opts))

\* setInitialUpdateTime
\* A store whose initial update time is the last update time, 0 included.
InitialUpdateTimeIsLast(lut) == lut

\* A store that never learns its initial update time.
InitialUpdateTimeUnset(lut) == -1

setInitialUpdateTime(lut) == IF lut = 0 THEN -1 ELSE lut

(***************************************************************************)
(* Timers.  A handle is NULL or "timer"; liveTimers counts, per poller,    *)
(* the intervals that were created and not cleared.                         *)
(***************************************************************************)
\* A pollForUpdates that creates its intervals without looking at the handles.
pollForUpdatesAlwaysArms(sT, iT, live, opts) ==
    LET armS == ~opts.disableRulesetsSync
        armI == ~opts.disableIdListsSync
    IN  [syncTimer |-> IF armS THEN "timer" ELSE sT,
         idListsSyncTimer |-> IF armI THEN "timer" ELSE iT,
         liveTimers |-> [sync |-> live.sync + (IF armS THEN 1 ELSE 0),
                         idLists |-> live.idLists + (IF armI THEN 1 ELSE 0)]]

\* pollForUpdates: [syncTimer, idListsSyncTimer, liveTimers] afterwards
pollForUpdates(sT, iT, live, opts) ==
    LET armS == sT = NULL /\ ~opts.disableRulesetsSync
        armI == iT = NULL /\ ~opts.disableIdListsSync
    IN  [syncTimer |-> IF armS THEN "timer" ELSE sT,
         idListsSyncTimer |-> IF armI THEN "timer" ELSE iT,
         liveTimers |-> [sync |-> live.sync + (IF armS THEN 1 ELSE 0),
                         idLists |-> live.idLists + (IF armI THEN 1 ELSE 0)]]

\* clearSyncTimer: [syncTimer, liveTimers] afterwards
clearSyncTimer(sT, live) ==
    IF sT # NULL
    THEN [syncTimer |-> NULL, liveTimers |-> [live EXCEPT !.sync = @ - 1]]
    ELSE [syncTimer |-> sT, liveTimers |-> live]

\* clearIdListsSyncTimer: [idListsSyncTimer, liveTimers] afterwards
clearIdListsSyncTimer(iT, live) ==
    IF iT # NULL
    THEN [idListsSyncTimer |-> NULL, liveTimers |-> [live EXCEPT !.idLists = @ - 1]]
    ELSE [idListsSyncTimer |-> iT, liveTimers |-> live]

Max(a, b) == IF a >= b THEN a ELSE b

\* A watchdog that goes by the configured interval alone.
TimerInactiveByInterval(lastActive, interval, t) == lastActive < t - interval

\* syncTimerLastActiveTime < Date.now() - Math.max(SYNC_OUTDATED_MAX, interval)
TimerInactive(lastActive, interval, t) ==
    lastActive < t - Max(SYNC_OUTDATED_MAX, interval)

(***************************************************************************)
(* ID lists.  A manifest (the get_id_lists response) lists its entries in  *)
(* order; url / fileID are NULL when they are not strings.  The body of a  *)
(* ranged GET is a sequence of lines <<prefix, id>>.                       *)
(***************************************************************************)
IDList(url, fileID, creationTime) ==
    [ids |-> {}, readBytes |-> 0, url |-> url, fileID |-> fileID,
     creationTime |-> creationTime]

ManifestEntry(name, url, fileID, creationTime, size) ==
    [name |-> name, url |-> url, fileID |-> fileID,
     creationTime |-> creationTime, size |-> size]

\* A removal that keeps every stored list.
removeOldIdListsKeepsAll(idLists, lookup) == idLists

\* IDListUtil.removeOldIdLists: drop the lists the manifest does not name
removeOldIdLists(idLists, lookup) ==
    [n \in (DOMAIN idLists) \cap {lookup[i].name : i \in DOMAIN lookup} |-> idLists[n]]

RECURSIVE ApplyLines(_, _)
ApplyLines(ids, lines) ==
    IF lines = <<>> THEN ids
    ELSE ApplyLines(IF Head(lines)[1] = "+" THEN ids \cup {Head(lines)[2]}
                    ELSE ids \ {Head(lines)[2]}, Tail(lines))

\* IDListUtil.updateIdList: [idLists afterwards, threw].  A line that starts
\* with neither + nor - drops the list.
updateIdList(idLists, name, lines) ==
    IF \E i \in DOMAIN lines : lines[i][1] \notin {"+", "-"}
    THEN [idLists |-> MapDelete(idLists, name), threw |-> TRUE]
    ELSE [idLists |-> [idLists EXCEPT ![name].ids = ApplyLines(@, lines)],
          threw |-> FALSE]

\* A manifest loop that reads the stored offset before it resets the list.
RECURSIVE ProcessManifestResetLate(_, _, _, _)
ProcessManifestResetLate(lookup, idLists, fetches, owner) ==
    IF lookup = <<>> THEN [idLists |-> idLists, fetches |-> fetches]
    ELSE
      LET item == Head(lookup)
          name == item.name
          known == name \in DOMAIN idLists
          oldCreationTime == IF known THEN idLists[name].creationTime ELSE 0
          skip == item.url = NULL \/ item.creationTime < oldCreationTime
                  \/ item.fileID = NULL
          newFile == (~known \/ item.fileID # idLists[name].fileID)
                     /\ item.creationTime >= oldCreationTime
          reset == ~known \/ newFile
          lists2 == IF reset
                    THEN MapSet(idLists, name,
                                IDList(item.url, item.fileID, item.creationTime))
                    ELSE idLists
          readSize == IF known THEN idLists[name].readBytes ELSE 0
      IN  IF skip THEN ProcessManifestResetLate(Tail(lookup), idLists, fetches, owner)
          ELSE IF item.size <= readSize
               THEN ProcessManifestResetLate(Tail(lookup), lists2, fetches, owner)
          ELSE ProcessManifestResetLate(Tail(lookup), lists2,
                   Append(fetches, [name |-> name, url |-> item.url,
                                    readSize |-> readSize, owner |-> owner,
                                    fileID |-> lists2[name].fileID]),
                   owner)

\* The loop over the manifest in syncIdListsFromNetwork: the lists afterwards
\* and the ranged GETs it starts (genFetchIDList(name, url, readSize)).  Each
\* GET also remembers, for the properties, the fileID the list had when it
\* was started.
RECURSIVE ProcessManifest(_, _, _, _)
ProcessManifest(lookup, idLists, fetches, owner) ==
    IF lookup = <<>> THEN [idLists |-> idLists, fetches |-> fetches]
    ELSE
      LET item == Head(lookup)
          name == item.name
          known == name \in DOMAIN idLists
          oldCreationTime == IF known THEN idLists[name].creationTime ELSE 0
          skip == item.url = NULL \/ item.creationTime < oldCreationTime
                  \/ item.fileID = NULL
          newFile == (~known \/ item.fileID # idLists[name].fileID)
                     /\ item.creationTime >= oldCreationTime
          reset == ~known \/ newFile
          lists2 == IF reset
                    THEN MapSet(idLists, name,
                                IDList(item.url, item.fileID, item.creationTime))
                    ELSE idLists
          readSize == lists2[name].readBytes
      IN  IF skip THEN ProcessManifest(Tail(lookup), idLists, fetches, owner)
          ELSE IF item.size <= readSize
               THEN ProcessManifest(Tail(lookup), lists2, fetches, owner)
          ELSE ProcessManifest(Tail(lookup), lists2,
                   Append(fetches, [name |-> name, url |-> item.url,
                                    readSize |-> readSize, owner |-> owner,
                                    fileID |-> lists2[name].fileID]),
                   owner)

\* A genFetchIDList that drops the list when the Content-Length is missing.
genFetchIDListDropsUnmeasured(idLists, name, res) ==
    IF res.kind = "error" THEN [idLists |-> idLists, caught |-> TRUE]
    ELSE IF res.contentLength = <<>>
         THEN [idLists |-> MapDelete(idLists, name), caught |-> TRUE]
    ELSE IF name \notin DOMAIN idLists THEN [idLists |-> idLists, caught |-> TRUE]
    ELSE LET counted == [idLists EXCEPT ![name].readBytes = @ + res.contentLength[1]]
             u == updateIdList(counted, name, res.lines)
         IN  [idLists |-> u.idLists, caught |-> u.threw]

\* genFetchIDList from the point where safeFetch settles: the lists afterwards
\* and whether the catch block ran (a warning is logged).
\* res.kind: "error" (the request rejects) or "ok"; res.contentLength is <<>>
\* when the header is missing.
genFetchIDList(idLists, name, res) ==
    IF res.kind = "error" THEN [idLists |-> idLists, caught |-> TRUE]
    ELSE IF res.contentLength = <<>> THEN [idLists |-> idLists, caught |-> TRUE]
    ELSE IF name \notin DOMAIN idLists THEN [idLists |-> idLists, caught |-> TRUE]
    ELSE LET counted == [idLists EXCEPT ![name].readBytes = @ + res.contentLength[1]]
             u == updateIdList(counted, name, res.lines)
         IN  [idLists |-> u.idLists, caught |-> u.threw]

\* syncIdListsFromDataAdapter from the point where the adapter answered.
\* lookup: the names under the id_lists key; each name's data is a sequence
\* of lines.  Every list that has data is replaced by a 'bootstrap' list fed
\* with that data.
RECURSIVE AdapterLists(_, _)
AdapterLists(idLists, entries) ==
    IF entries = <<>> THEN idLists
    ELSE LET e == Head(entries)
             fresh == MapSet(idLists, e.name, IDList("bootstrap", "bootstrap", 0))
         IN  AdapterLists(updateIdList(fresh, e.name, e.lines).idLists, Tail(entries))

(***************************************************************************)
(* The inputs of the lifecycle specification: the catalogs the control     *)
(* plane, the data adapter or the host's bootstrap string may deliver.     *)
(***************************************************************************)
GateOn == ConfigSpec("g1", TRUE, <<ConfigRule("r1", 100, <<Public>>, NULL, NULL)>>)
GateOff == ConfigSpec("g1", FALSE, <<>>)
GateDep == ConfigSpec("g2", TRUE, <<ConfigRule("r2", 100, <<PassGate("g1")>>, NULL, NULL)>>)
Experiment == ConfigSpec("c1", TRUE, <<ConfigRule("rc", 100, <<Public>>, NULL, "grp")>>)
LayerSpec == ConfigSpec("l1", TRUE, <<ConfigRule("rl", 100, <<Public>>, "c1", NULL)>>)

\* gates that pass no user, some users and every user, the last behind a
\* rule for one e-mail address; a config with a rule for half of the users
PayloadPercent ==
    Payload(TRUE, <<100>>,
            <<ConfigSpec("p0", TRUE, <<ConfigRule("r0", 0, <<Public>>, NULL, NULL)>>),
              ConfigSpec("p50", TRUE, <<ConfigRule("r50", 50, <<Public>>, NULL, NULL)>>),
              ConfigSpec("p100", TRUE,
                         <<ConfigRule("rv", 0, <<UserField("email", "eq", "v")>>, NULL, NULL),
                           ConfigRule("r100", 100, <<Public>>, NULL, NULL)>>)>>,
            <<ConfigSpec("c50", TRUE, <<ConfigRule("r50", 50, <<Public>>, NULL, NULL)>>)>>,
            <<>>, <<>>)

PayloadA == Payload(TRUE, <<100>>, <<GateOn>>, <<Experiment>>, <<LayerSpec>>,
                    <<LayerEntry("l1", <<"c1">>)>>)
PayloadB == Payload(TRUE, <<200>>, <<GateOff, GateDep>>, <<>>, <<>>, <<>>)
PayloadNoUpdates == Payload(FALSE, <<300>>, <<GateDep>>, <<>>, <<>>, <<>>)
PayloadNoTime == Payload(TRUE, <<>>, <<GateDep>>, <<Experiment>>, <<>>, <<>>)
PayloadNotArray ==
    [Payload(TRUE, <<300>>, <<GateDep>>, <<>>, <<>>, <<>>) EXCEPT
        !.notArray = "dynamic_configs",
        !.diagnostics = <<[dcs |-> <<20000>>, log |-> <<>>, idlist |-> <<-5>>,
                           initialize |-> <<100>>]>>]
PayloadBadSpec == Payload(TRUE, <<300>>, <<GateDep>>, <<Experiment, BadSpecJSON>>, <<>>, <<>>)
PayloadBadLayers ==
    Payload(TRUE, <<300>>, <<GateDep>>, <<>>, <<>>,
            <<[LayerEntry("l1", <<>>) EXCEPT !.iterable = FALSE]>>)

Payloads == {PayloadA, PayloadB, PayloadNoUpdates, PayloadNoTime, PayloadNotArray,
             PayloadBadSpec, PayloadBadLayers}

NetworkResponses ==
    {Response(k, PayloadA) : k \in {"error", "localModeError", "noResponse", "invalidJSON"}}
    \cup {Response("json", p) : p \in Payloads}

AdapterResponses ==
    {Response(k, PayloadA) : k \in {"error", "noResult", "invalidJSON"}}
    \cup {Response("json", p) : p \in Payloads}

SpecResponses(opts) ==
    IF shouldSyncFromAdapter(opts) THEN AdapterResponses ELSE NetworkResponses

\* Why _process turns a payload down ("" when it does not).
RejectReason(specsJSON, lut) ==
    IF ~specsJSON.has_updates THEN "no_updates"
    ELSE IF IsOlder(specsJSON, lut) THEN "older"
    ELSE IF specsJSON.notArray # "" THEN "not_arrays"
    ELSE IF ~AllConstructible(specsJSON.feature_gates)
            \/ ~AllConstructible(specsJSON.dynamic_configs)
            \/ ~AllConstructible(specsJSON.layer_configs) THEN "construction"
    ELSE IF reverseLayerExperimentMappingThrows(specsJSON.layers) THEN "layers_throw"
    ELSE ""

\* bootstrapValues: none, a string that is not JSON, or the JSON of a payload
Bootstrap(kind, json) == [kind |-> kind, json |-> json]
NoBootstrap == Bootstrap("none", PayloadA)

Options(bootstrap, adapter, disableR, disableI, intervals, strategy) ==
    [bootstrapValues |-> bootstrap, dataAdapter |-> adapter,
     disableRulesetsSync |-> disableR, disableIdListsSync |-> disableI,
     rulesetsSyncIntervalMs |-> intervals[1], idListsSyncIntervalMs |-> intervals[2],
     initStrategyForIDLists |-> strategy, rulesUpdatedCallback |-> TRUE,
     initTimeoutMs |-> 0]

DefaultIntervals == <<10000, 60000>>
LongIntervals == <<200000, 200000>>

\* the options of the lifecycle specification: a cold start, bootstrap values
\* (invalid or usable), a polling data adapter, bootstrap values in conflict
\* with an adapter, and the lazy ID-list strategy
OptionProfiles ==
    {Options(NoBootstrap, NULL, FALSE, FALSE, DefaultIntervals, "await"),
     Options(Bootstrap("invalid", PayloadA), NULL, FALSE, FALSE, DefaultIntervals, "none"),
     Options(Bootstrap("json", PayloadA), NULL, FALSE, FALSE, DefaultIntervals, "none"),
     Options(NoBootstrap, "polling", FALSE, FALSE, DefaultIntervals, "await"),
     Options(Bootstrap("json", PayloadA), "adapter", FALSE, FALSE, DefaultIntervals,
             "none"),
     Options(Bootstrap("json", PayloadA), NULL, TRUE, FALSE, DefaultIntervals, "lazy")}

\* The options under which overlapping ID-list syncs are followed: the lists
\* are initialized lazily beside a running ID-lists poller.
OverlapProfiles == {Options(NoBootstrap, NULL, TRUE, FALSE, DefaultIntervals, "lazy")}

\* The options under which hashLookupTable is followed.  Under all others
\* it is left as it starts, empty, so that every computeUserHash there takes
\* the path of a miss.
HashProfiles ==
    {Options(Bootstrap("json", PayloadPercent), NULL, TRUE, TRUE, DefaultIntervals, "none")}

TableFollowed == options \in HashProfiles

IdListSyncLimit == IF options \in OverlapProfiles THEN MaxOverlap ELSE MaxIdListSyncs
IdListFetchLimit == IF options \in OverlapProfiles THEN MaxOverlap ELSE MaxIdListFetches

(***************************************************************************)
(* Evaluations.  A user is [userID, email, customIDs]; userID is NULL when *)
(* the user has none, customIDs is the set of id types the user carries.   *)
(* A lookup name is a string, NULL standing for any value that is not one. *)
(* A JSON value is a tuple (<<>> is {}).                                   *)
(* An evaluation carries `reason` (evaluation_details.reason, "" while no  *)
(* details are attached) and `threw`: an exception left the call instead   *)
(* of a result.  The only exception followed is the engine's RangeError    *)
(* when calls nest deeper than MaxStackDepth.  `table` is hashLookupTable   *)
(* as the call leaves it (the empty map in a value handed to the host).    *)
(***************************************************************************)
ConfigEvaluation(value, rule_id, group_name, secondary_exposures, json_value, explicit_parameters, config_delegate) ==
    [value |-> value, rule_id |-> rule_id, group_name |-> group_name,
     secondary_exposures |-> secondary_exposures,
     undelegated_secondary_exposures |-> secondary_exposures,
     json_value |-> json_value, explicit_parameters |-> explicit_parameters,
     config_delegate |-> config_delegate, unsupported |-> FALSE,
     is_experiment_group |-> FALSE, reason |-> "", threw |-> FALSE,
     table |-> EmptyMap]

\* explicit_parameters = null
NoParameters == <<>>

\* new ConfigEvaluation(value, rule_id) with the constructor's defaults
DefaultEvaluation(value, rule_id) ==
    ConfigEvaluation(value, rule_id, NULL, <<>>, <<>>, NoParameters, NULL)

\* ConfigEvaluation.unsupported(...)
UnsupportedEvaluation ==
    [DefaultEvaluation(FALSE, "") EXCEPT !.unsupported = TRUE, !.reason = "Unsupported"]

\* the exception, in the place of a result
Thrown == [DefaultEvaluation(FALSE, "") EXCEPT !.threw = TRUE]

\* a result, or the exception, with the hash table as the call leaves it
WithTable(evaluation, table) == [evaluation EXCEPT !.table = table]
ThrownAt(table) == WithTable(Thrown, table)

withEvaluationDetails(evaluation, reason) == [evaluation EXCEPT !.reason = reason]

\* what `returned` holds when the last step was not a check
NoEvaluation == [DefaultEvaluation(FALSE, "") EXCEPT !.reason = "none"]

(***************************************************************************)
(* What a step did, for the properties to read.                            *)
(***************************************************************************)
\* What getClientInitializeResponse came back with: kind "none" (it was not
\* called), "null", "throw" (an exception left it) or "payload".
ClientInitializeResponse(kind, gates, configs, layers, time) ==
    [kind |-> kind, feature_gates |-> gates, dynamic_configs |-> configs,
     layer_configs |-> layers, has_updates |-> TRUE, time |-> time]

NoResponse == ClientInitializeResponse("none", {}, {}, {}, 0)

NoObservation ==
    [op |-> "", entry |-> "", processed |-> "none", rejected |-> "",
     response |-> NoResponse,
     reset |-> "none", syncValuesCalls |-> 0, syncIdListsCalls |-> 0,
     cleared |-> {}, armed |-> {}, logged |-> "", callback |-> FALSE,
     saved |-> FALSE, error |-> "", user |-> "", name |-> "",
     previousReset |-> "none", time |-> <<>>, customIDs |-> {}, email |-> "",
     callbackTime |-> <<>>, savedTime |-> <<>>,
     manifest |-> "none", lookup |-> <<>>, fetch |-> <<>>, chunk |-> "none",
     contentLength |-> <<>>]

Observe(op) == [NoObservation EXCEPT !.op = op]

ObserveProcess(op, entry, json, lut, result) ==
    [NoObservation EXCEPT !.op = op, !.entry = entry, !.processed = result,
        !.time = json.time,
        !.rejected = IF result = "true" THEN "" ELSE RejectReason(json, lut)]

\* The state after `new StatsigServer(secretKey, options)`.
Constructed(profiles) ==
    /\ options \in profiles
    /\ store = [gates |-> EmptyMap, configs |-> EmptyMap, idLists |-> EmptyMap,
                layers |-> EmptyMap, experimentToLayer |-> EmptyMap]
    /\ lastUpdateTime = 0
    /\ initialUpdateTime = 0
    /\ initReason = "Uninitialized"
    /\ samplingRates = [dcs |-> 0, log |-> 0, idlist |-> 0,
                        initialize |-> MAX_SAMPLING_RATE]
    /\ syncFailureCount = 0
    /\ initialized = FALSE
    /\ syncTimer = NULL
    /\ idListsSyncTimer = NULL
    /\ liveTimers = [sync |-> 0, idLists |-> 0]
    /\ syncTimerLastActiveTime = 0
    /\ idListsSyncTimerLastActiveTime = 0
    /\ now = 0
    /\ initPc = "none"
    /\ specFetches = [plain |-> 0, thenIdLists |-> 0]
    /\ idListSyncs = <<>>
    /\ idListFetches = <<>>
    /\ lazyIdLists = FALSE
    /\ ready = FALSE
    /\ pendingInitPromise = FALSE
    /\ shutdownCalled = FALSE
    /\ initTimeouts = 0
    /\ gateOverrides = EmptyMap
    /\ configOverrides = EmptyMap
    /\ layerOverrides = EmptyMap
    /\ hashLookupTable = EmptyMap
    /\ last = NoObservation
    /\ returned = NoEvaluation

(***************************************************************************)
(* SpecStore.init, segment by segment.  initPc is "none" before the call,  *)
(* then the await it is suspended in ("adapterInit", "adapterFetch",       *)
(* "coldStart", "idLists"), "finally" when init returned without awaiting  *)
(* and the promise's finally callback has not run yet, "hung" when the     *)
(* awaited promise can no longer settle, and "done".                       *)
(***************************************************************************)
SpecFetchCount == specFetches.plain + specFetches.thenIdLists

\* The end of init (pollForUpdates, initialized = true) and initializeAsync's
\* finally callback, which is deferred when init did not await anything.
InitTail(deferFinally) ==
    /\ \E t \in {pollForUpdates(syncTimer, idListsSyncTimer, liveTimers, options)} :
          /\ syncTimer' = t.syncTimer
          /\ idListsSyncTimer' = t.idListsSyncTimer
          /\ liveTimers' = t.liveTimers
    /\ initialized' = TRUE
    /\ IF deferFinally
       THEN initPc' = "finally" /\ pendingInitPromise' = TRUE /\ UNCHANGED ready
       ELSE initPc' = "done" /\ pendingInitPromise' = FALSE /\ ready' = TRUE

\* _initIDLists up to its first await
initIDLists(owner) ==
    [owner |-> owner, fallback |-> TRUE,
     stage |-> IF options.dataAdapter # NULL THEN "adapter" ELSE "manifest"]

\* init from `if (this.initStrategyForIDLists === 'lazy')` on
InitIdListsStage(deferFinally) ==
    IF options.initStrategyForIDLists = "lazy"
    THEN /\ lazyIdLists' = TRUE
         /\ UNCHANGED idListSyncs
         /\ InitTail(deferFinally)
    ELSE IF options.initStrategyForIDLists # "none"
    THEN /\ Len(idListSyncs) < IdListSyncLimit
         /\ idListSyncs' = Append(idListSyncs, initIDLists("init"))
         /\ initPc' = "idLists"
         /\ pendingInitPromise' = TRUE
         /\ UNCHANGED <<timerVars, initialized, ready, lazyIdLists>>
    ELSE /\ UNCHANGED <<idListSyncs, lazyIdLists>>
         /\ InitTail(deferFinally)

\* init after the bootstrap block, for a store without a data adapter.
\* p: what syncBootstrapValues' _process left ("none" when it did not run);
\* reason: initReason after the bootstrap block
InitWithoutAdapter(p, reason) ==
    IF reason = "Bootstrap"
    THEN /\ initialUpdateTime' = setInitialUpdateTime(p.lastUpdateTime)
         /\ options.disableRulesetsSync \/ SpecFetchCount < MaxSpecFetches
         /\ specFetches' = IF options.disableRulesetsSync THEN specFetches
                           ELSE [specFetches EXCEPT !.plain = @ + 1]
         /\ InitIdListsStage(TRUE)
    ELSE IF p.lastUpdateTime = 0
    THEN /\ initialUpdateTime' = IF p.result = "false"
                                 THEN setInitialUpdateTime(p.lastUpdateTime)
                                 ELSE initialUpdateTime
         /\ initPc' = "coldStart"
         /\ pendingInitPromise' = TRUE
         /\ UNCHANGED <<specFetches, idListSyncs, lazyIdLists, timerVars,
                        initialized, ready>>
    ELSE /\ initialUpdateTime' = setInitialUpdateTime(p.lastUpdateTime)
         /\ UNCHANGED specFetches
         /\ InitIdListsStage(TRUE)

\* An initializeAsync that remembers no pending promise.
initializeAsyncBranchNoPending(pending, isReady, allowReInitialize) ==
    IF isReady THEN (IF allowReInitialize THEN "reInitialize" ELSE "resolved")
    ELSE "init"

\* The branch initializeAsync takes: it returns the pending promise, it
\* resolves at once, it re-initializes a ready server, or it starts
\* Evaluator.init.
initializeAsyncBranch(pending, isReady, allowReInitialize) ==
    IF pending THEN "pending"
    ELSE IF isReady THEN (IF allowReInitialize THEN "reInitialize" ELSE "resolved")
    ELSE "init"

\* An initializeAsync that changes nothing: the pending promise is
\* returned, or the server is ready and allowReInitialize is not set.
InitializeAsyncAgain(allowReInitialize) ==
    /\ \E branch \in {initializeAsyncBranch(pendingInitPromise, ready, allowReInitialize)} :
          /\ branch \in {"pending", "resolved"}
          /\ last' = [Observe("initializeAsync") EXCEPT !.entry = branch]
    /\ shutdownCalled' = FALSE
    /\ returned' = NoEvaluation /\ UNCHANGED hashLookupTable
    /\ UNCHANGED <<options, initTimeouts,
                   storeVars, syncFailureCount, initialized, timerVars, clockVars,
                   taskVars, ready, pendingInitPromise, overrideVars>>

\* An init that takes the bootstrap values whether or not there is a data
\* adapter.
BootstrapUsedBesideAdapter(opts) == opts.bootstrapValues.kind # "none"

\* init's `if (this.bootstrapValues != null) { if (this.dataAdapter != null)
\* { error: conflict, defaulting to adapter } else { ... } }`: whether the
\* bootstrap block runs
BootstrapUsed(opts) == opts.bootstrapValues.kind # "none" /\ opts.dataAdapter = NULL

\* The initializeAsync that starts Evaluator.init, which a server does once:
\* Evaluator.init -> SpecStore.init up to its first await; with initTimeoutMs
\* the init promise is raced against a timer, and an init started beside
\* one that the timer left running is not followed.
InitializeAsync ==
    /\ initializeAsyncBranch(pendingInitPromise, ready, FALSE) = "init"
    /\ initPc = "none" \/ (initPc # "done" /\ options.initTimeoutMs = 0)
    /\ \E p \in {IF options.bootstrapValues.kind = "json" /\ BootstrapUsed(options)
                 THEN _process(options.bootstrapValues.json, store, lastUpdateTime,
                               samplingRates)
                 ELSE ProcessOutcome("none", store, lastUpdateTime, samplingRates)} :
          /\ store' = p.store
          /\ samplingRates' = p.samplingRates
          /\ lastUpdateTime' = p.lastUpdateTime
          /\ initReason' = IF p.result = "true" THEN "Bootstrap" ELSE initReason
          /\ last' = IF p.result = "none" THEN Observe("initializeAsync")
                     ELSE ObserveProcess("initializeAsync", "bootstrap",
                                         options.bootstrapValues.json, lastUpdateTime,
                                         p.result)
          /\ IF options.dataAdapter # NULL
             THEN /\ initPc' = "adapterInit"
                  /\ pendingInitPromise' = TRUE
                  /\ UNCHANGED <<initialUpdateTime, specFetches, idListSyncs, lazyIdLists,
                                 timerVars, initialized, ready>>
             ELSE InitWithoutAdapter(p, IF p.result = "true" THEN "Bootstrap"
                                        ELSE initReason)
    /\ initTimeouts' = IF options.initTimeoutMs > 0 THEN initTimeouts + 1
                       ELSE initTimeouts
    /\ shutdownCalled' = FALSE
    /\ returned' = NoEvaluation /\ UNCHANGED hashLookupTable
    /\ UNCHANGED <<options, syncFailureCount, clockVars, idListFetches, overrideVars>>

\* the setTimeout of initializeAsync's Promise.race fires, initTimeoutMs
\* after the call: the server is ready, whatever Evaluator.init has reached
InitTimeoutFires ==
    /\ initTimeouts > 0
    /\ initTimeouts' = initTimeouts - 1
    /\ ready' = TRUE
    /\ pendingInitPromise' = FALSE
    /\ last' = Observe("initTimeout")
    /\ returned' = NoEvaluation /\ UNCHANGED hashLookupTable
    /\ UNCHANGED <<options, storeVars, syncFailureCount, initialized, timerVars, clockVars,
                   taskVars, shutdownCalled, overrideVars>>

\* the finally callback of an init that did not await
InitFinally ==
    /\ initPc = "finally"
    /\ initPc' = "done"
    /\ ready' = TRUE
    /\ pendingInitPromise' = FALSE
    /\ last' = Observe("initFinally")
    /\ returned' = NoEvaluation /\ UNCHANGED hashLookupTable
    /\ UNCHANGED <<options, initTimeouts,
                   storeVars, syncFailureCount, initialized, timerVars, clockVars,
                   specFetches, idListSyncs, idListFetches, lazyIdLists, shutdownCalled,
                   overrideVars>>

\* adapter.initialize() settles: init goes on to await
\* _fetchConfigSpecsFromAdapter, or rejects with it (and the finally callback runs)
InitAdapterInitialized(resolved) ==
    /\ initPc = "adapterInit"
    /\ IF resolved
       THEN initPc' = "adapterFetch" /\ UNCHANGED <<ready, pendingInitPromise>>
       ELSE initPc' = "done" /\ ready' = TRUE /\ pendingInitPromise' = FALSE
    /\ last' = Observe("initAdapterInitialized")
    /\ returned' = NoEvaluation /\ UNCHANGED hashLookupTable
    /\ UNCHANGED <<options, initTimeouts,
                   storeVars, syncFailureCount, initialized, timerVars, clockVars,
                   specFetches, idListSyncs, idListFetches, lazyIdLists, shutdownCalled,
                   overrideVars>>

\* how a step that ran a fetch of the rulesets is recorded
ObserveFetch(op, entry, json, lut, f, logged) ==
    [(IF f.processed = "none" THEN Observe(op)
      ELSE ObserveProcess(op, entry, json, lut, f.processed))
     EXCEPT !.logged = logged, !.callback = f.callback, !.saved = f.saved,
            !.callbackTime = IF f.callback THEN <<f.lastUpdateTime>> ELSE <<>>,
            !.savedTime = IF f.saved THEN <<f.lastUpdateTime>> ELSE <<>>]

\* dataAdapter.get(rulesets) settles inside init.  A rejection leaves init
\* through its caller: Evaluator.init rejects and the finally callback runs.
InitAdapterFetched(resp) ==
    /\ initPc = "adapterFetch"
    /\ \E f \in {_fetchConfigSpecsFromAdapter(resp, store, lastUpdateTime, samplingRates,
                                              initReason, options)} :
          /\ store' = f.store
          /\ lastUpdateTime' = f.lastUpdateTime
          /\ samplingRates' = f.samplingRates
          /\ initReason' = f.initReason
          /\ last' = ObserveFetch("initAdapterFetched", "adapter", resp.json,
                                  lastUpdateTime, f, "")
          /\ IF f.threw
             THEN /\ initPc' = "done"
                  /\ ready' = TRUE
                  /\ pendingInitPromise' = FALSE
                  /\ UNCHANGED <<initialUpdateTime, idListSyncs, lazyIdLists, timerVars,
                                 initialized>>
             ELSE IF f.lastUpdateTime = 0
             THEN /\ initPc' = "coldStart"
                  /\ UNCHANGED <<initialUpdateTime, idListSyncs, lazyIdLists, timerVars,
                                 initialized, ready, pendingInitPromise>>
             ELSE /\ initialUpdateTime' = setInitialUpdateTime(f.lastUpdateTime)
                  /\ InitIdListsStage(FALSE)
    /\ returned' = NoEvaluation /\ UNCHANGED hashLookupTable
    /\ UNCHANGED <<options, initTimeouts,
                   syncFailureCount, clockVars, specFetches, idListFetches,
                   shutdownCalled, overrideVars>>

\* where the rulesets of a sync come from
SyncEntry == IF shouldSyncFromAdapter(options) THEN "adapter" ELSE "network"

\* the fetch of init's `await this.syncValues(true)` settles
InitColdStartResponse(resp) ==
    /\ initPc = "coldStart"
    /\ \E s \in {syncValues(resp, TRUE, store, lastUpdateTime, samplingRates, initReason,
                            syncFailureCount, options)} :
          /\ s.syncFailureCount <= MaxFailures
          /\ store' = s.fetch.store
          /\ lastUpdateTime' = s.fetch.lastUpdateTime
          /\ samplingRates' = s.fetch.samplingRates
          /\ initReason' = s.fetch.initReason
          /\ syncFailureCount' = s.syncFailureCount
          /\ initialUpdateTime' = setInitialUpdateTime(s.fetch.lastUpdateTime)
          /\ last' = ObserveFetch("initColdStart", SyncEntry, resp.json, lastUpdateTime,
                                  s.fetch, s.logged)
    /\ InitIdListsStage(FALSE)
    /\ returned' = NoEvaluation /\ UNCHANGED hashLookupTable
    /\ UNCHANGED <<options, initTimeouts,
                   clockVars, specFetches, idListFetches, shutdownCalled,
                   overrideVars>>

(***************************************************************************)
(* Background work: the pollers' ticks, the fetches they start and the     *)
(* responses to them.                                                      *)
(***************************************************************************)
\* A syncIdLists that does not look at initStrategyForIDLists.
syncIdListsWhateverStrategy(syncs) ==
    Append(syncs, [owner |-> "bg", fallback |-> FALSE,
                   stage |-> IF shouldSyncFromAdapter(options)
                             THEN "adapter" ELSE "manifest"])

\* syncIdLists up to its first await: the suspended calls afterwards
syncIdLists(syncs) ==
    IF options.initStrategyForIDLists = "none" THEN syncs
    ELSE Append(syncs, [owner |-> "bg", fallback |-> FALSE,
                        stage |-> IF shouldSyncFromAdapter(options)
                                  THEN "adapter" ELSE "manifest"])

\* a tick of the rulesets poller: stamp the last-active time, start syncValues
SyncTimerTick ==
    /\ liveTimers.sync > 0
    /\ SpecFetchCount < MaxSpecFetches
    /\ syncTimerLastActiveTime' = now
    /\ specFetches' = [specFetches EXCEPT !.plain = @ + 1]
    /\ last' = [Observe("syncTimerTick") EXCEPT !.syncValuesCalls = 1]
    /\ returned' = NoEvaluation /\ UNCHANGED hashLookupTable
    /\ UNCHANGED <<options, initTimeouts,
                   storeVars, syncFailureCount, initialized, timerVars,
                   idListsSyncTimerLastActiveTime, now, initPc, idListSyncs,
                   idListFetches, lazyIdLists, serverVars, overrideVars>>

\* a tick of the ID-lists poller
IdListsTimerTick ==
    /\ liveTimers.idLists > 0
    /\ \E syncs \in {syncIdLists(idListSyncs)} :
          /\ Len(syncs) <= IdListSyncLimit
          /\ idListSyncs' = syncs
    /\ idListsSyncTimerLastActiveTime' = now
    /\ last' = [Observe("idListsTimerTick") EXCEPT !.syncIdListsCalls = 1]
    /\ returned' = NoEvaluation /\ UNCHANGED hashLookupTable
    /\ UNCHANGED <<options, initTimeouts,
                   storeVars, syncFailureCount, initialized, timerVars,
                   syncTimerLastActiveTime, now, initPc, specFetches, idListFetches,
                   lazyIdLists, serverVars, overrideVars>>

\* init's setTimeout(() => _initIDLists(), 0) fires
LazyIdListsTimeout ==
    /\ lazyIdLists
    /\ Len(idListSyncs) < IdListSyncLimit
    /\ lazyIdLists' = FALSE
    /\ idListSyncs' = Append(idListSyncs, initIDLists("bg"))
    /\ last' = Observe("lazyIdListsTimeout")
    /\ returned' = NoEvaluation /\ UNCHANGED hashLookupTable
    /\ UNCHANGED <<options, initTimeouts,
                   storeVars, syncFailureCount, initialized, timerVars, clockVars,
                   initPc, specFetches, idListFetches, serverVars, overrideVars>>

\* The fetch of a syncValues call that nobody in init awaits settles.
\* kind "thenIdLists": the call is syncStoreSpecs().then(syncStoreIdLists).
SpecFetchResponse(kind, resp) ==
    /\ specFetches[kind] > 0
    /\ \E s \in {syncValues(resp, FALSE, store, lastUpdateTime, samplingRates, initReason,
                            syncFailureCount, options)} :
          /\ s.syncFailureCount <= MaxFailures
          /\ store' = s.fetch.store
          /\ lastUpdateTime' = s.fetch.lastUpdateTime
          /\ samplingRates' = s.fetch.samplingRates
          /\ initReason' = s.fetch.initReason
          /\ syncFailureCount' = s.syncFailureCount
          /\ last' = [ObserveFetch("specFetchResponse", SyncEntry, resp.json,
                                   lastUpdateTime, s.fetch, s.logged)
                      EXCEPT !.syncIdListsCalls = IF kind = "thenIdLists" THEN 1 ELSE 0]
    /\ \E syncs \in {IF kind = "thenIdLists" THEN syncIdLists(idListSyncs)
                     ELSE idListSyncs} :
          /\ Len(syncs) <= IdListSyncLimit
          /\ idListSyncs' = syncs
    /\ specFetches' = [specFetches EXCEPT ![kind] = @ - 1]
    /\ returned' = NoEvaluation /\ UNCHANGED hashLookupTable
    /\ UNCHANGED <<options, initTimeouts,
                   initialUpdateTime, initialized, timerVars, clockVars, initPc,
                   idListFetches, lazyIdLists, serverVars, overrideVars>>

RemoveAt(seq, i) == SubSeq(seq, 1, i - 1) \o SubSeq(seq, i + 1, Len(seq))

\* init is suspended in `await this._initIDLists()` and nothing of that call
\* is left pending among `syncs` and `fetches`
InitIdListsSettled(syncs, fetches) ==
    /\ initPc = "idLists"
    /\ \A i \in DOMAIN syncs : syncs[i].owner # "init"
    /\ \A i \in DOMAIN fetches : fetches[i].owner # "init"

\* What follows an ID-list step: init resumes if its _initIDLists call
\* settled.  initHangs: that call can no longer settle (a promise of
\* syncIdListsFromDataAdapter that nothing resolves), so init stays suspended.
AfterIdListStep(syncs, fetches, initHangs) ==
    /\ idListSyncs' = syncs
    /\ idListFetches' = fetches
    /\ IF initHangs
       THEN initPc' = "hung"
            /\ UNCHANGED <<timerVars, initialized, ready, pendingInitPromise>>
       ELSE IF InitIdListsSettled(syncs, fetches)
       THEN InitTail(FALSE)
       ELSE UNCHANGED <<timerVars, initialized, initPc, ready, pendingInitPromise>>

\* What the data adapter holds for the ID lists: nothing usable ("none"), or
\* a lookup of names ("lists"); a name whose data is missing has hasData FALSE.
AdapterIdLists(kind, entries) == [kind |-> kind, entries |-> entries]

\* a syncIdListsFromDataAdapter call gets the adapter's answers
IdListAdapterAnswer(i, ans) ==
    /\ i \in DOMAIN idListSyncs
    /\ idListSyncs[i].stage = "adapter"
    /\ \E withData \in {SelectSeq(ans.entries, LAMBDA e : e.hasData)} :
          /\ store' = [store EXCEPT
                          !.idLists = IF ans.kind = "lists" THEN AdapterLists(@, withData)
                                      ELSE @]
          /\ AfterIdListStep(IF ans.kind = "none" /\ idListSyncs[i].fallback
                             THEN [idListSyncs EXCEPT ![i].stage = "manifest"]
                             ELSE RemoveAt(idListSyncs, i),
                             idListFetches,
                             /\ ans.kind = "lists"
                             /\ Len(withData) < Len(ans.entries)
                             /\ idListSyncs[i].owner = "init")
    /\ last' = Observe("idListAdapterAnswer")
    /\ returned' = NoEvaluation /\ UNCHANGED hashLookupTable
    /\ UNCHANGED <<options, initTimeouts,
                   lastUpdateTime, initialUpdateTime, initReason, samplingRates,
                   syncFailureCount, clockVars, specFetches, lazyIdLists, shutdownCalled,
                   overrideVars>>

\* The get_id_lists response: "error" (the POST rejects), "notObject"
\* (parseLookupResponse gives null, or response.json() throws) or "lookup".
Manifest(kind, lookup) == [kind |-> kind, lookup |-> lookup]

\* a syncIdListsFromNetwork call gets the get_id_lists response
IdListManifestAnswer(i, ans) ==
    /\ i \in DOMAIN idListSyncs
    /\ idListSyncs[i].stage = "manifest"
    /\ \E r \in {IF ans.kind = "lookup"
                 THEN ProcessManifest(ans.lookup, store.idLists, <<>>, idListSyncs[i].owner)
                 ELSE [idLists |-> store.idLists, fetches |-> <<>>]} :
          /\ Len(idListFetches) + Len(r.fetches) <= IdListFetchLimit
          /\ store' = [store EXCEPT
                          !.idLists = IF ans.kind = "lookup"
                                      THEN removeOldIdLists(r.idLists, ans.lookup)
                                      ELSE @]
          /\ AfterIdListStep(RemoveAt(idListSyncs, i), idListFetches \o r.fetches, FALSE)
    /\ last' = [Observe("idListManifestAnswer") EXCEPT
                    !.manifest = ans.kind,
                    !.lookup = IF ans.kind = "lookup" THEN ans.lookup ELSE <<>>]
    /\ returned' = NoEvaluation /\ UNCHANGED hashLookupTable
    /\ UNCHANGED <<options, initTimeouts,
                   lastUpdateTime, initialUpdateTime, initReason, samplingRates,
                   syncFailureCount, clockVars, specFetches, lazyIdLists, shutdownCalled,
                   overrideVars>>

\* the response to a ranged GET
Chunk(kind, contentLength, lines) ==
    [kind |-> kind, contentLength |-> contentLength, lines |-> lines]

\* a genFetchIDList call gets its response
IdListChunkAnswer(i, res) ==
    /\ i \in DOMAIN idListFetches
    /\ \E r \in {genFetchIDList(store.idLists, idListFetches[i].name, res)} :
          /\ store' = [store EXCEPT !.idLists = r.idLists]
          /\ last' = [Observe("idListChunkAnswer") EXCEPT
                         !.logged = IF r.caught THEN "warn" ELSE "",
                         !.fetch = <<idListFetches[i]>>,
                         !.chunk = res.kind,
                         !.contentLength = IF res.kind = "ok" THEN res.contentLength
                                           ELSE <<>>]
    /\ AfterIdListStep(idListSyncs, RemoveAt(idListFetches, i), FALSE)
    /\ returned' = NoEvaluation /\ UNCHANGED hashLookupTable
    /\ UNCHANGED <<options, initTimeouts,
                   lastUpdateTime, initialUpdateTime, initReason, samplingRates,
                   syncFailureCount, clockVars, specFetches, lazyIdLists, shutdownCalled,
                   overrideVars>>

\* Date.now() moves on
AdvanceClock ==
    /\ now + ClockStep <= MaxNow
    /\ now' = now + ClockStep
    /\ last' = Observe("advanceClock")
    /\ returned' = NoEvaluation /\ UNCHANGED hashLookupTable
    /\ UNCHANGED <<options, initTimeouts,
                   storeVars, syncFailureCount, initialized, timerVars,
                   syncTimerLastActiveTime, idListsSyncTimerLastActiveTime, taskVars,
                   serverVars, overrideVars>>

(***************************************************************************)
(* The Evaluator: exposures, overrides, bucketing and the operators.       *)
(***************************************************************************)
SecondaryExposure(gate, gateValue, ruleID) ==
    [gate |-> gate, gateValue |-> gateValue, ruleID |-> ruleID]

\* String(value) of a boolean
BoolString(b) == IF b THEN "true" ELSE "false"

\* the names that start with 'segment:'
SegmentNames == {"segment:s1"}
StartsWithSegment(name) == name \in SegmentNames

RECURSIVE Dedupe(_, _)
Dedupe(exposures, seen) ==
    IF exposures = <<>> THEN <<>>
    ELSE LET e == Head(exposures)
             key == <<e.gate, e.gateValue, e.ruleID>>
         IN  IF key \in seen THEN Dedupe(Tail(exposures), seen)
             ELSE <<e>> \o Dedupe(Tail(exposures), seen \cup {key})

\* An evaluator that returns the exposures as they were gathered.
KeepExposures(exposures) == exposures

\* _cleanExposures: drop the segment: gates, then keep the first of each
\* gate|gateValue|ruleID key
_cleanExposures(exposures) ==
    Dedupe(SelectSeq(exposures, LAMBDA e : ~StartsWithSegment(e.gate)), {})

\* A lookup that prefers the global override to the user's.
lookupGateOverrideGlobalFirst(user, gateName) ==
    IF gateName \notin DOMAIN gateOverrides THEN <<>>
    ELSE IF "" \in DOMAIN gateOverrides[gateName]
    THEN <<DefaultEvaluation(gateOverrides[gateName][""], "override")>>
    ELSE IF user.userID # NULL /\ user.userID \in DOMAIN gateOverrides[gateName]
    THEN <<DefaultEvaluation(gateOverrides[gateName][user.userID], "override")>>
    ELSE <<>>

\* lookupGateOverride: <<>> when no override applies, else <<evaluation>>
lookupGateOverride(user, gateName) ==
    IF gateName \notin DOMAIN gateOverrides THEN <<>>
    ELSE LET overrides == gateOverrides[gateName]
         IN  IF user.userID # NULL /\ user.userID \in DOMAIN overrides
             THEN <<DefaultEvaluation(overrides[user.userID], "override")>>
             ELSE IF "" \in DOMAIN overrides
             THEN <<DefaultEvaluation(overrides[""], "override")>>
             ELSE <<>>

\* lookupConfigBasedOverride on configOverrides[name] / layerOverrides[name]:
\* <<>> when no override applies, else <<evaluation>>
lookupConfigBasedOverride(user, allOverrides, name) ==
    IF name \notin DOMAIN allOverrides THEN <<>>
    ELSE LET overrides == allOverrides[name]
         IN  IF user.userID # NULL /\ user.userID \in DOMAIN overrides
             THEN <<ConfigEvaluation(TRUE, "override", NULL, <<>>,
                                     overrides[user.userID], NoParameters, NULL)>>
             ELSE IF "" \in DOMAIN overrides
             THEN <<ConfigEvaluation(TRUE, "override", NULL, <<>>, overrides[""],
                                     NoParameters, NULL)>>
             ELSE <<>>

\* _getUnitID for idType 'userID' (the only one the catalogs here use)
_getUnitID(user, idType) == user.userID

\* A stand-in for sha256Hash(userHash).getBigUint64(0, false): a fixed
\* function of the three parts of the key salt.ruleSalt.unitID.
StringCode(str) ==
    CASE str = "u1" -> 1 [] str = "u2" -> 2 [] str = "g1" -> 3 [] str = "g2" -> 4
      [] str = "g3" -> 5 [] str = "c1" -> 6 [] str = "c2" -> 7 [] str = "l1" -> 8
      [] str = "r1" -> 9 [] str = "r2" -> 10 [] str = "r3" -> 11 [] str = "rc" -> 12
      [] str = "rl" -> 13 [] str = "p0" -> 14 [] str = "p50" -> 15
      [] str = "p100" -> 16 [] str = "c50" -> 17 [] str = "r0" -> 18
      [] str = "r50" -> 19 [] str = "r100" -> 20 [] str = "rv" -> 21
      [] str = "u3" -> 22 [] OTHER -> 0

sha256Hash(userHash) ==
    StringCode(userHash[1]) * 7919 + StringCode(userHash[2]) * 4391
        + StringCode(userHash[3]) * 6007

\* A computeUserHash that never clears its table.
computeUserHashNoClear(table, userHash) ==
    IF userHash \in DOMAIN table /\ table[userHash] # 0
    THEN [hash |-> table[userHash], table |-> table]
    ELSE [hash |-> sha256Hash(userHash),
          table |-> MapSet(table, userHash, sha256Hash(userHash))]

\* A computeUserHash whose table is keyed by the unit ID alone.
computeUserHashByUnit(table, userHash) ==
    LET Stored(hash, kept) == [hash |-> hash, table |-> MapSet(kept, <<userHash[3]>>, hash)]
    IN  IF <<userHash[3]>> \in DOMAIN table /\ table[<<userHash[3]>>] # 0
        THEN [hash |-> table[<<userHash[3]>>], table |-> table]
        ELSE Stored(sha256Hash(userHash),
                    IF Cardinality(DOMAIN table) > HashLookupLimit THEN EmptyMap
                    ELSE table)

\* computeUserHash on the table `table`: the hash and the table afterwards.
\* The key salt + '.' + ruleSalt + '.' + unitID is kept as its three parts.
computeUserHash(table, userHash) ==
    LET Stored(hash, kept) == [hash |-> hash, table |-> MapSet(kept, userHash, hash)]
    IN  IF userHash \in DOMAIN table /\ table[userHash] # 0
        THEN [hash |-> table[userHash], table |-> table]
        ELSE Stored(sha256Hash(userHash),
                    IF Cardinality(DOMAIN table) > HashLookupLimit THEN EmptyMap
                    ELSE table)

\* An _evalPassPercent that compares the whole hash.
_evalPassPercentNoModulo(user, rule, config, table) ==
    LET Compared(h) ==
            [pass |-> h.hash < rule.passPercentage * 100, table |-> h.table]
    IN  Compared(computeUserHash(table,
                     <<config.salt, Coalesce(rule.salt, rule.id),
                       Coalesce(_getUnitID(user, rule.idType), "")>>))

\* _evalPassPercent: whether the user passes, and the table afterwards
_evalPassPercent(user, rule, config, table) ==
    LET Compared(h) ==
            [pass |-> h.hash % CONDITION_SEGMENT_COUNT < rule.passPercentage * 100,
             table |-> h.table]
    IN  Compared(computeUserHash(table,
                     <<config.salt, Coalesce(rule.salt, rule.id),
                       Coalesce(_getUnitID(user, rule.idType), "")>>))

\* getFromUser for the fields a user of the model has
getFromUser(user, field) == IF field = "email" THEN user.email ELSE NULL

\* An operator switch that takes an operator it does not know for a
\* comparison that fails.
EvalOperatorUnknownFails(op, value, condition) ==
    LET target == condition.targetValue
    IN  CASE op = "eq" ->
                BoolString(~condition.targetIsArray /\ Len(target) = 1 /\ value = target[1])
          [] op = "neq" ->
                BoolString(~(~condition.targetIsArray /\ Len(target) = 1
                             /\ value = target[1]))
          [] op = "any" ->
                BoolString(condition.targetIsArray /\ value # NULL
                           /\ \E i \in DOMAIN target : target[i] = value)
          [] OTHER -> "false"

\* The operator switch of _evalCondition on (value, target): "true", "false"
\* or "unsupported".  The catalogs here use eq, neq and any.
EvalOperator(op, value, condition) ==
    LET target == condition.targetValue
    IN  CASE op = "eq" ->
                BoolString(~condition.targetIsArray /\ Len(target) = 1 /\ value = target[1])
          [] op = "neq" ->
                BoolString(~(~condition.targetIsArray /\ Len(target) = 1
                             /\ value = target[1]))
          [] op = "any" ->
                BoolString(condition.targetIsArray /\ value # NULL
                           /\ \E i \in DOMAIN target : target[i] = value)
          [] OTHER -> "unsupported"

ConditionResult(passes, unsupported, exposures, threw, table) ==
    [passes |-> passes, unsupported |-> unsupported, exposures |-> exposures,
     threw |-> threw, table |-> table]

(***************************************************************************)
(* The interpreter.  `depth` counts the checkGate / _eval calls on the     *)
(* stack; a call nested deeper than MaxStackDepth raises RangeError, which *)
(* nothing in the Evaluator catches.  `table` is hashLookupTable when the  *)
(* call starts; every result carries the table as the call leaves it.      *)
(***************************************************************************)
RECURSIVE checkGateAt(_, _, _, _)
RECURSIVE _evalSpec(_, _, _, _, _)
RECURSIVE _eval(_, _, _, _)
RECURSIVE EvalRules(_, _, _, _, _, _)
RECURSIVE _evalDelegate(_, _, _, _, _)
RECURSIVE _evalRule(_, _, _, _)
RECURSIVE EvalConditions(_, _, _, _, _, _, _)
RECURSIVE _evalCondition(_, _, _, _)
RECURSIVE EvalMultiGate(_, _, _, _, _, _)

\* Evaluator.checkGate, called with `depth` frames below it
checkGateAt(user, gateName, depth, table) ==
    LET Looked(override) ==
            IF override # <<>>
            THEN WithTable(withEvaluationDetails(override[1], "LocalOverride"), table)
            ELSE IF initReason = "Uninitialized"
            THEN WithTable(withEvaluationDetails(DefaultEvaluation(FALSE, ""),
                                                 "Uninitialized"), table)
            ELSE _evalSpec(user, store.gates, gateName, depth, table)
    IN  IF depth > MaxStackDepth THEN ThrownAt(table)
        ELSE Looked(lookupGateOverride(user, gateName))

\* An _evalSpec that treats an absent spec as a disabled one.
_evalSpecAbsentAsDisabled(user, specs, name, depth, table) ==
    LET Cleaned(evaluation) ==
            IF evaluation.threw THEN ThrownAt(evaluation.table)
            ELSE [evaluation EXCEPT
                     !.secondary_exposures = _cleanExposures(@),
                     !.reason = IF @ # "" THEN @ ELSE initReason]
    IN  IF name \notin DOMAIN specs
        THEN WithTable(withEvaluationDetails(DefaultEvaluation(FALSE, "disabled"),
                                             initReason), table)
        ELSE Cleaned(_eval(user, specs[name], depth + 1, table))

\* _evalSpec on specs[name] (null when the name is absent)
_evalSpec(user, specs, name, depth, table) ==
    LET Cleaned(evaluation) ==
            IF evaluation.threw THEN ThrownAt(evaluation.table)
            ELSE [evaluation EXCEPT
                     !.secondary_exposures = _cleanExposures(@),
                     !.reason = IF @ # "" THEN @ ELSE initReason]
    IN  IF name \notin DOMAIN specs
        THEN WithTable(withEvaluationDetails(DefaultEvaluation(FALSE, ""),
                                             "Unrecognized"), table)
        ELSE Cleaned(_eval(user, specs[name], depth + 1, table))

\* An _eval that runs the rules of a disabled spec.
_evalDisabledAsEnabled(user, config, depth, table) ==
    IF depth > MaxStackDepth THEN ThrownAt(table)
    ELSE EvalRules(user, config, 1, <<>>, depth, table)

_eval(user, config, depth, table) ==
    IF depth > MaxStackDepth THEN ThrownAt(table)
    ELSE IF ~config.enabled
    THEN WithTable(ConfigEvaluation(FALSE, "disabled", NULL, <<>>, config.defaultValue,
                                    NoParameters, NULL), table)
    ELSE EvalRules(user, config, 1, <<>>, depth, table)

\* the loop over config.rules in _eval, from rule i on
EvalRules(user, config, i, secondary_exposures, depth, table) ==
    LET Undelegated(ruleResult, exposures, percent) ==
            [ConfigEvaluation(percent.pass, ruleResult.rule_id, ruleResult.group_name,
                              exposures,
                              IF percent.pass THEN ruleResult.json_value
                              ELSE config.defaultValue,
                              config.explicitParameters, ruleResult.config_delegate)
             EXCEPT !.is_experiment_group = ruleResult.is_experiment_group,
                    !.table = percent.table]
        Matched(ruleResult, exposures, delegatedResult) ==
            IF delegatedResult # <<>> THEN delegatedResult[1]
            ELSE Undelegated(ruleResult, exposures,
                             _evalPassPercent(user, config.rules[i], config,
                                              ruleResult.table))
        Evaluated(ruleResult, exposures) ==
            IF ruleResult.threw THEN ThrownAt(ruleResult.table)
            ELSE IF ruleResult.unsupported
            THEN WithTable(UnsupportedEvaluation, ruleResult.table)
            ELSE IF ruleResult.value
            THEN Matched(ruleResult, exposures,
                         _evalDelegate(user, config.rules[i], exposures, depth,
                                       ruleResult.table))
            ELSE EvalRules(user, config, i + 1, exposures, depth, ruleResult.table)
        Concatenated(ruleResult) ==
            Evaluated(ruleResult, secondary_exposures \o ruleResult.secondary_exposures)
    IN  IF i > Len(config.rules)
        THEN WithTable(ConfigEvaluation(FALSE, "default", NULL, secondary_exposures,
                                        config.defaultValue, config.explicitParameters,
                                        NULL), table)
        ELSE Concatenated(_evalRule(user, config.rules[i], depth, table))

\* An _evalDelegate that delegates only for a rule of non-zero passPercentage.
_evalDelegateIfPercent(user, rule, exposures, depth, table) ==
    LET Delegated(config, delegatedResult) ==
            IF delegatedResult.threw THEN <<ThrownAt(delegatedResult.table)>>
            ELSE <<[delegatedResult EXCEPT
                      !.config_delegate = rule.configDelegate,
                      !.undelegated_secondary_exposures = exposures,
                      !.explicit_parameters = config.explicitParameters,
                      !.secondary_exposures = exposures \o @,
                      !.group_name = Coalesce(@, Coalesce(rule.groupName, NULL))]>>
    IN  IF rule.configDelegate = NULL \/ rule.passPercentage = 0 THEN <<>>
        ELSE IF rule.configDelegate \notin DOMAIN store.configs THEN <<>>
        ELSE Delegated(store.configs[rule.configDelegate],
                       _eval(user, store.configs[rule.configDelegate], depth + 1, table))

\* An _evalDelegate that hands the delegate's evaluation on with its own
\* exposures and group.
_evalDelegateUntouched(user, rule, exposures, depth, table) ==
    LET Delegated(config, delegatedResult) ==
            IF delegatedResult.threw THEN <<ThrownAt(delegatedResult.table)>>
            ELSE <<[delegatedResult EXCEPT
                      !.config_delegate = rule.configDelegate,
                      !.explicit_parameters = config.explicitParameters]>>
    IN  IF rule.configDelegate = NULL THEN <<>>
        ELSE IF rule.configDelegate \notin DOMAIN store.configs THEN <<>>
        ELSE Delegated(store.configs[rule.configDelegate],
                       _eval(user, store.configs[rule.configDelegate], depth + 1, table))

\* _evalDelegate: <<>> for null, else <<evaluation>>
_evalDelegate(user, rule, exposures, depth, table) ==
    LET Delegated(config, delegatedResult) ==
            IF delegatedResult.threw THEN <<ThrownAt(delegatedResult.table)>>
            ELSE <<[delegatedResult EXCEPT
                      !.config_delegate = rule.configDelegate,
                      !.undelegated_secondary_exposures = exposures,
                      !.explicit_parameters = config.explicitParameters,
                      !.secondary_exposures = exposures \o @,
                      !.group_name = Coalesce(@, Coalesce(rule.groupName, NULL))]>>
    IN  IF rule.configDelegate = NULL THEN <<>>
        ELSE IF rule.configDelegate \notin DOMAIN store.configs THEN <<>>
        ELSE Delegated(store.configs[rule.configDelegate],
                       _eval(user, store.configs[rule.configDelegate], depth + 1, table))

_evalRule(user, rule, depth, table) ==
    EvalConditions(user, rule, 1, TRUE, <<>>, depth, table)

\* the loop over rule.conditions in _evalRule, from condition i on
EvalConditions(user, rule, i, pass, secondaryExposures, depth, table) ==
    LET Evaluated(result) ==
            IF result.threw THEN ThrownAt(result.table)
            ELSE IF result.unsupported THEN WithTable(UnsupportedEvaluation, result.table)
            ELSE EvalConditions(user, rule, i + 1, pass /\ result.passes,
                                secondaryExposures \o result.exposures, depth,
                                result.table)
    IN  IF i > Len(rule.conditions)
        THEN [ConfigEvaluation(pass, rule.id, rule.groupName, secondaryExposures,
                               rule.returnValue, NoParameters, NULL)
              EXCEPT !.is_experiment_group = rule.isExperimentGroup,
                     !.table = table]
        ELSE Evaluated(_evalCondition(user, rule.conditions[i], depth, table))

_evalCondition(user, condition, depth, table) ==
    LET Gate(gateResult) ==
            IF gateResult.threw
            THEN ConditionResult(FALSE, FALSE, <<>>, TRUE, gateResult.table)
            ELSE IF gateResult.unsupported
            THEN ConditionResult(FALSE, TRUE, <<>>, FALSE, gateResult.table)
            ELSE ConditionResult(
                     IF condition.type = "fail_gate" THEN ~gateResult.value
                     ELSE gateResult.value,
                     FALSE,
                     Append(gateResult.secondary_exposures,
                            SecondaryExposure(condition.targetValue[1],
                                              BoolString(gateResult.value),
                                              gateResult.rule_id)),
                     FALSE, gateResult.table)
        Compared(r) == ConditionResult(r = "true", r = "unsupported", <<>>, FALSE, table)
    IN  CASE condition.type = "public" -> ConditionResult(TRUE, FALSE, <<>>, FALSE, table)
          [] condition.type \in {"pass_gate", "fail_gate"} ->
                Gate(checkGateAt(user, condition.targetValue[1], depth + 1, table))
          [] condition.type \in {"multi_pass_gate", "multi_fail_gate"} ->
                IF ~condition.targetIsArray
                THEN ConditionResult(FALSE, TRUE, <<>>, FALSE, table)
                ELSE EvalMultiGate(user, condition, 1, <<>>, depth, table)
          [] condition.type = "user_field" ->
                Compared(EvalOperator(condition.operator,
                                      getFromUser(user, condition.field), condition))
          [] OTHER -> ConditionResult(FALSE, TRUE, <<>>, FALSE, table)

\* the loop over the gate names of a multi_pass_gate / multi_fail_gate
EvalMultiGate(user, condition, i, exposures, depth, table) ==
    LET Pushed(gateResult, all) ==
            IF (IF condition.type = "multi_pass_gate"
                THEN gateResult.value ELSE ~gateResult.value)
            THEN ConditionResult(TRUE, FALSE, all, FALSE, gateResult.table)
            ELSE EvalMultiGate(user, condition, i + 1, all, depth, gateResult.table)
        Gate(gateResult) ==
            IF gateResult.threw
            THEN ConditionResult(FALSE, FALSE, <<>>, TRUE, gateResult.table)
            ELSE IF gateResult.unsupported
            THEN ConditionResult(FALSE, TRUE, <<>>, FALSE, gateResult.table)
            ELSE Pushed(gateResult,
                        Append(exposures,
                               SecondaryExposure(condition.targetValue[i],
                                                 BoolString(gateResult.value),
                                                 gateResult.rule_id))
                        \o gateResult.secondary_exposures)
    IN  IF i > Len(condition.targetValue)
        THEN ConditionResult(FALSE, FALSE, exposures, FALSE, table)
        ELSE Gate(checkGateAt(user, condition.targetValue[i], depth + 1, table))

\* The public entry points.
checkGate(user, gateName, table) == checkGateAt(user, gateName, 1, table)

\* A getConfig / getLayer that evaluates whatever initReason is.
ConfigBasedUnguarded(user, allOverrides, specs, name, table) ==
    LET Looked(override) ==
            IF override # <<>>
            THEN WithTable(withEvaluationDetails(override[1], "LocalOverride"), table)
            ELSE _evalSpec(user, specs, name, 1, table)
    IN  Looked(lookupConfigBasedOverride(user, allOverrides, name))

\* getConfig / getLayer on their override table and their map of the store
ConfigBased(user, allOverrides, specs, name, table) ==
    LET Looked(override) ==
            IF override # <<>>
            THEN WithTable(withEvaluationDetails(override[1], "LocalOverride"), table)
            ELSE IF initReason = "Uninitialized"
            THEN WithTable(withEvaluationDetails(DefaultEvaluation(FALSE, ""),
                                                 "Uninitialized"), table)
            ELSE _evalSpec(user, specs, name, 1, table)
    IN  Looked(lookupConfigBasedOverride(user, allOverrides, name))

getConfig(user, configName, table) ==
    ConfigBased(user, configOverrides, store.configs, configName, table)

getLayer(user, layerName, table) ==
    ConfigBased(user, layerOverrides, store.layers, layerName, table)

(***************************************************************************)
(* The request path: StatsigServer.checkGate / getConfig / getLayer.       *)
(***************************************************************************)
\* The timers after the watchdog's clearSyncTimer / clearIdListsSyncTimer (for
\* the pollers it forces) and its pollForUpdates.
ForcedTimers(forceSync, forceIdLists) ==
    LET Polled(s, i) ==
            pollForUpdates(s.syncTimer, i.idListsSyncTimer, i.liveTimers, options)
        SyncCleared(s) ==
            Polled(s, IF forceIdLists
                      THEN clearIdListsSyncTimer(idListsSyncTimer, s.liveTimers)
                      ELSE [idListsSyncTimer |-> idListsSyncTimer,
                            liveTimers |-> s.liveTimers])
    IN  SyncCleared(IF forceSync THEN clearSyncTimer(syncTimer, liveTimers)
                    ELSE [syncTimer |-> syncTimer, liveTimers |-> liveTimers])

\* SpecStore.resetSyncTimerIfExited on the current state: whether it returns
\* an Error, and the timers and the suspended syncs afterwards.
resetSyncTimerIfExited ==
    LET Forced(forceSync, forceIdLists, t) ==
            [error |-> TRUE, syncTimer |-> t.syncTimer,
             idListsSyncTimer |-> t.idListsSyncTimer, liveTimers |-> t.liveTimers,
             specFetches |-> IF forceSync THEN [specFetches EXCEPT !.plain = @ + 1]
                             ELSE specFetches,
             idListSyncs |-> IF forceIdLists THEN syncIdLists(idListSyncs)
                             ELSE idListSyncs,
             syncValuesCalls |-> IF forceSync THEN 1 ELSE 0,
             syncIdListsCalls |-> IF forceIdLists THEN 1 ELSE 0,
             cleared |-> (IF forceSync THEN {"sync"} ELSE {})
                         \cup (IF forceIdLists THEN {"idLists"} ELSE {}),
             armed |-> (IF (forceSync \/ syncTimer = NULL) /\ t.syncTimer # NULL
                        THEN {"sync"} ELSE {})
                       \cup (IF (forceIdLists \/ idListsSyncTimer = NULL)
                                /\ t.idListsSyncTimer # NULL
                             THEN {"idLists"} ELSE {})]
        Decided(forceSync, forceIdLists) ==
            IF ~forceSync /\ ~forceIdLists
            THEN [error |-> FALSE, syncTimer |-> syncTimer,
                  idListsSyncTimer |-> idListsSyncTimer, liveTimers |-> liveTimers,
                  specFetches |-> specFetches, idListSyncs |-> idListSyncs,
                  syncValuesCalls |-> 0, syncIdListsCalls |-> 0, cleared |-> {},
                  armed |-> {}]
            ELSE Forced(forceSync, forceIdLists, ForcedTimers(forceSync, forceIdLists))
    IN  Decided(TimerInactive(syncTimerLastActiveTime, options.rulesetsSyncIntervalMs, now)
                    /\ ~options.disableRulesetsSync,
                TimerInactive(idListsSyncTimerLastActiveTime,
                              options.idListsSyncIntervalMs, now)
                    /\ ~options.disableIdListsSync)

\* the Evaluator call behind each of the three check entry points
Evaluate(kind, user, name, table) ==
    CASE kind = "checkGate" -> checkGate(user, name, table)
      [] kind = "getConfig" -> getConfig(user, name, table)
      [] OTHER -> getLayer(user, name, table)

\* utils/core isUserIdentifiable
isUserIdentifiable(user) == user.userID # NULL \/ user.customIDs # {}

UninitializedError == "StatsigUninitializedError"
InvalidKeyError == "Lookup key must be a non-empty string"
InvalidUserError == "Must pass a valid user"

\* A validation that looks at the user before the lookup key.
_validateInputsUserFirst(isReady, user, configName) ==
    IF isReady # TRUE THEN UninitializedError
    ELSE IF ~isUserIdentifiable(user) THEN InvalidUserError
    ELSE IF configName = NULL \/ configName = "" THEN InvalidKeyError
    ELSE ""

\* StatsigServer._validateInputs: the error it finds ("" when none)
_validateInputs(isReady, user, configName) ==
    IF isReady # TRUE THEN UninitializedError
    ELSE IF configName = NULL \/ configName = "" THEN InvalidKeyError
    ELSE IF ~isUserIdentifiable(user) THEN InvalidUserError
    ELSE ""

\* getGateImpl / getConfigImpl / getLayerImpl: _validateInputs (which runs the
\* watchdog whatever it finds), then the Evaluator unless validation failed.
Check(kind, user, name) ==
    /\ \E r \in {resetSyncTimerIfExited}, error \in {_validateInputs(ready, user, name)} :
          /\ \E evaluation \in {IF error = ""
                                 THEN Evaluate(kind, user, name, hashLookupTable)
                                 ELSE WithTable(NoEvaluation, hashLookupTable)} :
                /\ returned' = WithTable(evaluation, EmptyMap)
                /\ hashLookupTable' = IF TableFollowed THEN evaluation.table
                                      ELSE hashLookupTable
          /\ r.specFetches.plain + r.specFetches.thenIdLists <= MaxSpecFetches
          /\ Len(r.idListSyncs) <= IdListSyncLimit
          /\ syncTimer' = r.syncTimer
          /\ idListsSyncTimer' = r.idListsSyncTimer
          /\ liveTimers' = r.liveTimers
          /\ specFetches' = r.specFetches
          /\ idListSyncs' = r.idListSyncs
          /\ last' = [Observe(kind) EXCEPT
                          !.reset = IF r.error THEN "error" ELSE "null",
                          !.syncValuesCalls = r.syncValuesCalls,
                          !.syncIdListsCalls = r.syncIdListsCalls,
                          !.cleared = r.cleared, !.armed = r.armed,
                          !.error = error,
                          !.user = user.userID, !.name = name,
                          !.customIDs = user.customIDs, !.email = user.email,
                          !.previousReset = IF last.reset = "error" THEN "error"
                                           ELSE "none"]
    /\ UNCHANGED <<options, initTimeouts,
                   storeVars, syncFailureCount, initialized, clockVars,
                   initPc, idListFetches, lazyIdLists, serverVars, overrideVars>>

\* StatsigServer.shutdown -> Evaluator.shutdown -> SpecStore.shutdown
Shutdown ==
    /\ ready' = FALSE
    /\ shutdownCalled' = TRUE
    /\ syncTimer' = NULL
    /\ idListsSyncTimer' = NULL
    /\ liveTimers' = clearIdListsSyncTimer(idListsSyncTimer,
                         clearSyncTimer(syncTimer, liveTimers).liveTimers).liveTimers
    /\ last' = Observe("shutdown")
    /\ returned' = NoEvaluation /\ UNCHANGED hashLookupTable
    /\ UNCHANGED <<options, initTimeouts,
                   storeVars, syncFailureCount, initialized, clockVars,
                   taskVars, pendingInitPromise, overrideVars>>

\* initializeAsync({allowReInitialize: true, bootstrapValues}) on a ready
\* server: syncBootstrapValues, or syncStoreSpecs().then(syncStoreIdLists).
\* An exception (JSON.parse, _process) ends in the error boundary's recovery.
ReInitialize(b) ==
    /\ initializeAsyncBranch(pendingInitPromise, ready, TRUE) = "reInitialize"
    /\ SpecFetchCount + (IF b.kind = "none" THEN 1 ELSE 0) <= MaxSpecFetches
    /\ \E p \in {IF b.kind = "json"
                 THEN _process(b.json, store, lastUpdateTime, samplingRates)
                 ELSE ProcessOutcome("none", store, lastUpdateTime, samplingRates)} :
          /\ store' = p.store
          /\ lastUpdateTime' = p.lastUpdateTime
          /\ samplingRates' = p.samplingRates
          /\ last' = IF p.result # "none"
                     THEN ObserveProcess("reInitialize", "bootstrap", b.json,
                                         lastUpdateTime, p.result)
                     ELSE [Observe("reInitialize") EXCEPT
                              !.syncValuesCalls = IF b.kind = "none" THEN 1 ELSE 0]
    /\ specFetches' = IF b.kind = "none" THEN [specFetches EXCEPT !.thenIdLists = @ + 1]
                      ELSE specFetches
    /\ returned' = NoEvaluation /\ UNCHANGED hashLookupTable
    /\ UNCHANGED <<options, initTimeouts,
                   initialUpdateTime, initReason, syncFailureCount, initialized,
                   timerVars, clockVars, initPc, idListSyncs, idListFetches, lazyIdLists,
                   serverVars, overrideVars>>

\* Evaluator.overrideGate / overrideConfig / overrideLayer
overrideGate(gateName, value, userID) ==
    /\ gateOverrides' =
          MapSet(gateOverrides, gateName,
                 MapSet(IF gateName \in DOMAIN gateOverrides
                        THEN gateOverrides[gateName] ELSE EmptyMap,
                        IF userID = NULL THEN "" ELSE userID, value))
    /\ last' = Observe("overrideGate")
    /\ returned' = NoEvaluation /\ UNCHANGED hashLookupTable
    /\ UNCHANGED <<options, initTimeouts,
                   storeVars, syncFailureCount, initialized, timerVars,
                   clockVars, taskVars, serverVars, configOverrides, layerOverrides>>

overrideConfig(configName, value, userID) ==
    /\ configOverrides' =
          MapSet(configOverrides, configName,
                 MapSet(IF configName \in DOMAIN configOverrides
                        THEN configOverrides[configName] ELSE EmptyMap,
                        IF userID = NULL THEN "" ELSE userID, value))
    /\ last' = Observe("overrideConfig")
    /\ returned' = NoEvaluation /\ UNCHANGED hashLookupTable
    /\ UNCHANGED <<options, initTimeouts,
                   storeVars, syncFailureCount, initialized, timerVars,
                   clockVars, taskVars, serverVars, gateOverrides, layerOverrides>>

overrideLayer(layerName, value, userID) ==
    /\ layerOverrides' =
          MapSet(layerOverrides, layerName,
                 MapSet(IF layerName \in DOMAIN layerOverrides
                        THEN layerOverrides[layerName] ELSE EmptyMap,
                        IF userID = NULL THEN "" ELSE userID, value))
    /\ last' = Observe("overrideLayer")
    /\ returned' = NoEvaluation /\ UNCHANGED hashLookupTable
    /\ UNCHANGED <<options, initTimeouts,
                   storeVars, syncFailureCount, initialized, timerVars,
                   clockVars, taskVars, serverVars, gateOverrides, configOverrides>>

(***************************************************************************)
(* The lifecycle specification: one server from construction on, with the  *)
(* host's calls and the environment's answers in any order, all within one *)
(* reading of the clock.                                                   *)
(***************************************************************************)
AdapterIdListAnswers ==
    {AdapterIdLists("none", <<>>),
     AdapterIdLists("lists", <<[name |-> "list1", hasData |-> TRUE,
                                lines |-> <<<<"+", "a">>>>]>>),
     AdapterIdLists("lists", <<[name |-> "list1", hasData |-> FALSE, lines |-> <<>>]>>)}

\* manifests whose lists need no ranged GET (size 0)
Manifests ==
    {Manifest("error", <<>>), Manifest("lookup", <<>>),
     Manifest("lookup", <<ManifestEntry("list1", "url1", "f1", 1, 2)>>)}

\* the responses to a ranged GET of an ID list
Chunks == {Chunk("error", <<>>, <<>>), Chunk("ok", <<2>>, <<<<"+", "a">>>>)}

ReInitializeBootstraps == {NoBootstrap, Bootstrap("invalid", PayloadA),
                           Bootstrap("json", PayloadA)}

Init == Constructed(OptionProfiles)

Background ==
    \/ InitFinally
    \/ \E resolved \in BOOLEAN : InitAdapterInitialized(resolved)
    \/ \E resp \in AdapterResponses : InitAdapterFetched(resp)
    \/ \E resp \in SpecResponses(options) : InitColdStartResponse(resp)
    \/ SyncTimerTick
    \/ IdListsTimerTick
    \/ LazyIdListsTimeout
    \/ \E kind \in {"plain", "thenIdLists"}, resp \in SpecResponses(options) :
          SpecFetchResponse(kind, resp)
    \/ \E i \in 1..MaxIdListSyncs, ans \in AdapterIdListAnswers : IdListAdapterAnswer(i, ans)
    \/ \E i \in 1..MaxIdListSyncs, ans \in Manifests : IdListManifestAnswer(i, ans)
    \/ \E i \in 1..MaxIdListFetches, res \in Chunks : IdListChunkAnswer(i, res)

HostCalls ==
    \/ InitializeAsync
    \/ Shutdown
    \/ \E b \in ReInitializeBootstraps : ReInitialize(b)

Next == Background \/ HostCalls

Spec == Init /\ [][Next]_vars

(***************************************************************************)
(* The watchdog specification: a server without bootstrap or adapter, for  *)
(* every combination of disabled pollers and of short and long intervals,  *)
(* with the clock moving and the host checking gates at any time.          *)
(***************************************************************************)
User(userID, email) ==
    [userID |-> userID, email |-> email,
     customIDs |-> IF userID = NULL THEN {"stableID"} ELSE {}]

\* a user object with neither userID nor customIDs
UserWithoutID(email) == [userID |-> NULL, email |-> email, customIDs |-> {}]

WatchdogProfiles ==
    {Options(NoBootstrap, NULL, dr, di, i, "await") :
        dr \in BOOLEAN, di \in BOOLEAN, i \in {DefaultIntervals, LongIntervals}}
    \cup {Options(NoBootstrap, NULL, dr, FALSE, DefaultIntervals, "none") :
        dr \in BOOLEAN}

WatchdogResponses == {Response("error", PayloadA), Response("json", PayloadA)}
WatchdogManifests == {Manifest("error", <<>>), Manifest("lookup", <<>>)}

WatchdogInit == Constructed(WatchdogProfiles)

WatchdogBackground ==
    \/ InitFinally
    \/ \E resp \in WatchdogResponses : InitColdStartResponse(resp)
    \/ SyncTimerTick
    \/ IdListsTimerTick
    \/ \E resp \in WatchdogResponses : SpecFetchResponse("plain", resp)
    \/ \E i \in 1..MaxIdListSyncs, ans \in WatchdogManifests : IdListManifestAnswer(i, ans)
    \/ AdvanceClock

WatchdogNext ==
    \/ WatchdogBackground
    \/ InitializeAsync
    \/ Shutdown
    \/ Check("checkGate", User("u1", "a@x"), "g1")

WatchdogSpec == WatchdogInit /\ [][WatchdogNext]_vars

(***************************************************************************)
(* The evaluation specification: a server that syncs nothing by itself     *)
(* (both pollers disabled, no ID lists), whose catalog comes from the cold *)
(* start or from a later bootstrap, with the host overriding and checking  *)
(* in any order.                                                           *)
(***************************************************************************)
\* g1 passes everyone; g2 asks g1 twice; g3 asks a segment gate and g2;
\* g4 and g5 ask lists of gates; c1 is an experiment behind g2; c2 uses an
\* operator the evaluator does not know; l1 delegates to c1 behind g3.
CatalogGates ==
    <<GateOn,
      ConfigSpec("g2", TRUE, <<ConfigRule("r2", 100, <<PassGate("g1"), PassGate("g1")>>,
                                          NULL, NULL)>>),
      ConfigSpec("segment:s1", TRUE, <<ConfigRule("rs", 100, <<Public>>, NULL, NULL)>>),
      ConfigSpec("g3", TRUE,
                 <<ConfigRule("r3", 100, <<PassGate("segment:s1"), FailGate("g2")>>,
                              NULL, NULL),
                   ConfigRule("r4", 100, <<PassGate("g2")>>, NULL, NULL)>>),
      ConfigSpec("g4", TRUE, <<ConfigRule("r5", 100, <<MultiPassGate(<<"g2", "g3">>)>>,
                                          NULL, NULL)>>),
      ConfigSpec("g5", TRUE,
                 <<ConfigRule("r6", 100, <<MultiFailGate(<<"g1", "g2", "nope">>),
                                           PassGate("g1")>>, NULL, NULL)>>)>>

CatalogConfigs ==
    <<ConfigSpec("c1", TRUE, <<ConfigRule("rc", 100, <<PassGate("g2"), PassGate("g3")>>,
                                          NULL, "grp")>>),
      ConfigSpec("c2", TRUE, <<ConfigRule("ru", 100, <<UserField("email", "regex", "x")>>,
                                          NULL, NULL)>>)>>

CatalogLayers ==
    <<ConfigSpec("l1", TRUE, <<ConfigRule("rl", 100, <<PassGate("g3"), PassGate("g2")>>,
                                          "c1", NULL)>>)>>

PayloadCatalog ==
    Payload(TRUE, <<100>>, CatalogGates, CatalogConfigs, CatalogLayers,
            <<LayerEntry("l1", <<"c1">>)>>)

\* gates that ask themselves, directly and through each other, and an
\* experiment that delegates to itself
PayloadCycle ==
    Payload(TRUE, <<200>>,
            <<ConfigSpec("g1", TRUE, <<ConfigRule("r1", 100, <<PassGate("g1")>>,
                                                  NULL, NULL)>>),
              ConfigSpec("g2", TRUE, <<ConfigRule("r2", 100, <<FailGate("g3")>>,
                                                  NULL, NULL)>>),
              ConfigSpec("g3", TRUE, <<ConfigRule("r3", 100, <<MultiPassGate(<<"g2">>)>>,
                                                  NULL, NULL)>>)>>,
            <<ConfigSpec("c1", TRUE, <<ConfigRule("rc", 100, <<Public>>, "c1", NULL)>>)>>,
            <<>>, <<>>)

EvalProfiles == {Options(NoBootstrap, NULL, TRUE, TRUE, DefaultIntervals, "none")}

EvalResponses == {Response("error", PayloadA), Response("json", PayloadCatalog),
                  Response("json", PayloadCycle)}

EvalBootstraps == {Bootstrap("json", PayloadCatalog), Bootstrap("json", PayloadCycle)}

EvalUsers == {User("u1", "x"), User("u2", "y"), User(NULL, "x")}

\* the (entry point, name) pairs the host checks
EvalChecks ==
    {<<"checkGate", n>> : n \in {"g1", "g2", "g3", "g4", "g5", "nope"}}
    \cup {<<"getConfig", n>> : n \in {"c1", "c2", "nope"}}
    \cup {<<"getLayer", n>> : n \in {"l1", "nope"}}

\* the (value, userID) pairs the host overrides with; a null userID is the
\* global override
GateOverrideInputs == BOOLEAN \X {"u1", NULL}
ConfigOverrideInputs == {<<<<"forUser">>, "u1">>, <<<<"forAll">>, NULL>>}

EvalInit == Constructed(EvalProfiles)

EvalNext ==
    \/ InitializeAsync
    \/ \E resp \in EvalResponses : InitColdStartResponse(resp)
    \/ \E b \in EvalBootstraps : ReInitialize(b)
    \/ \E o \in GateOverrideInputs : overrideGate("g1", o[1], o[2])
    \/ \E o \in ConfigOverrideInputs : overrideConfig("c1", o[1], o[2])
    \/ \E o \in ConfigOverrideInputs : overrideLayer("l1", o[1], o[2])
    \/ \E c \in EvalChecks, user \in EvalUsers : Check(c[1], user, c[2])

EvalSpec == EvalInit /\ [][EvalNext]_vars

-----------------------------------------------------------------------------
\* Properties of the store (specification Spec)

RejectCauses == {"no_updates", "older", "not_arrays", "construction"}

\* C1: a payload that _process rejects (has_updates falsy, a time older than
\* lastUpdateTime, a catalog field that is not an array, a spec that cannot
\* be constructed) leaves gates, configs, layers, experimentToLayer, idLists,
\* lastUpdateTime and initReason as they were, whether it came through
\* syncBootstrapValues, a network sync or an adapter sync.
C1_RejectedPayloadLeavesStore ==
    [][last'.rejected \in RejectCauses
         => /\ store' = store
            /\ lastUpdateTime' = lastUpdateTime
            /\ initReason' = initReason]_vars

\* a network payload with an unconstructible spec was rejected by a store
\* that already holds a catalog
C1_RejectedOverCatalog ==
    /\ last.rejected = "construction"
    /\ last.entry = "network"
    /\ store.gates # EmptyMap
    /\ lastUpdateTime > 0

\* C2: lastUpdateTime never decreases, whatever _process is given.
C2_LastUpdateTimeMonotonic == [][lastUpdateTime' >= lastUpdateTime]_vars

\* a payload older than the installed one was offered and turned down
C2_OlderPayloadOffered ==
    /\ last.rejected = "older"
    /\ lastUpdateTime = PayloadB.time[1]

\* C3: once shutdown has been called, no store state changes: a config-spec
\* or ID-list response that was in flight does not mutate the store.
C3_StoreFrozenAfterShutdown ==
    [][shutdownCalled /\ shutdownCalled'
         => /\ store' = store
            /\ lastUpdateTime' = lastUpdateTime
            /\ initReason' = initReason]_vars

\* a response that was in flight at shutdown was processed into the store
C3_ResponseProcessedAfterShutdown ==
    /\ shutdownCalled
    /\ last.op = "idListChunkAnswer"
    /\ store.idLists # EmptyMap
    /\ \E n \in DOMAIN store.idLists : store.idLists[n].ids # {}

-----------------------------------------------------------------------------
\* Properties of the watchdog (specification WatchdogSpec)

\* C4: after shutdown the server is not ready and both timer handles are
\* null, and they stay so: neither a check call's watchdog nor the completion
\* of an initialization that was in flight re-arms a poller.
C4_ShutdownStopsPollers ==
    shutdownCalled
        => /\ ~ready
           /\ syncTimer = NULL
           /\ idListsSyncTimer = NULL
           /\ liveTimers = [sync |-> 0, idLists |-> 0]

\* a check call made after shutdown was refused and its watchdog armed a
\* poller
C4_CheckAfterShutdownArms ==
    /\ shutdownCalled
    /\ last.op = "checkGate"
    /\ last.error = "StatsigUninitializedError"
    /\ last.armed # {}

\* the pollers the claim calls stale: enabled, and last active more than
\* max(120000, interval) ms ago
StalePollers ==
    (IF ~options.disableRulesetsSync
        /\ now - syncTimerLastActiveTime
             > Max(SYNC_OUTDATED_MAX, options.rulesetsSyncIntervalMs)
     THEN {"sync"} ELSE {})
    \cup (IF ~options.disableIdListsSync
             /\ now - idListsSyncTimerLastActiveTime
                  > Max(SYNC_OUTDATED_MAX, options.idListsSyncIntervalMs)
          THEN {"idLists"} ELSE {})

\* C5: resetSyncTimerIfExited returns null and starts no sync unless an
\* enabled poller was last active more than max(120000, interval) ms ago;
\* for exactly the stale enabled pollers it clears the timer, starts one
\* sync and re-arms polling, and it returns an Error; with both pollers
\* disabled it never starts a sync.
C5_WatchdogDecision ==
    last.op = "checkGate"
        => /\ last.reset = (IF StalePollers = {} THEN "null" ELSE "error")
           /\ last.cleared = StalePollers
           /\ last.syncValuesCalls = (IF "sync" \in StalePollers THEN 1 ELSE 0)
           /\ last.syncIdListsCalls = (IF "idLists" \in StalePollers THEN 1 ELSE 0)
           /\ StalePollers \subseteq last.armed
           /\ "sync" \in StalePollers => syncTimer # NULL
           /\ "idLists" \in StalePollers => idListsSyncTimer # NULL
           /\ options.disableRulesetsSync /\ options.disableIdListsSync
                => last.syncValuesCalls + last.syncIdListsCalls = 0

\* a check found the ruleset poller stale and the ID-list poller fresh, with
\* an interval below the 120000 ms floor
C5_OnePollerStale ==
    /\ last.op = "checkGate"
    /\ last.cleared = {"sync"}
    /\ ~options.disableIdListsSync
    /\ options.rulesetsSyncIntervalMs < SYNC_OUTDATED_MAX
    /\ last.reset = "error"

\* C6: resetSyncTimerIfExited called twice in succession has no further
\* effect the second time: no timer cleared, no sync started, null returned.
C6_SecondResetIsNoOp ==
    last.op = "checkGate" /\ last.previousReset = "error"
        => /\ last.reset = "null"
           /\ last.cleared = {}
           /\ last.syncValuesCalls + last.syncIdListsCalls = 0

\* two checks in succession both reset the pollers
C6_ResetTwice ==
    /\ last.op = "checkGate"
    /\ last.previousReset = "error"
    /\ last.reset = "error"
    /\ last.cleared # {}

-----------------------------------------------------------------------------
\* Properties of the evaluator (specification EvalSpec)

Checked == last.op \in {"checkGate", "getConfig", "getLayer"} /\ last.error = ""

CheckedUser == IF last.user = NULL THEN "" ELSE last.user

\* the override table the last check consulted
CheckedOverrides ==
    CASE last.op = "checkGate" -> gateOverrides
      [] last.op = "getConfig" -> configOverrides
      [] OTHER -> layerOverrides

\* the override entry that applies to the last check: <<>> when none, the
\* user's own entry when there is one, the global "" entry otherwise
ApplicableOverride ==
    IF last.name \notin DOMAIN CheckedOverrides THEN <<>>
    ELSE IF CheckedUser # "" /\ CheckedUser \in DOMAIN CheckedOverrides[last.name]
    THEN <<CheckedOverrides[last.name][CheckedUser]>>
    ELSE IF "" \in DOMAIN CheckedOverrides[last.name]
    THEN <<CheckedOverrides[last.name][""]>>
    ELSE <<>>

\* C7: when an override applies to the (name, user) of a check, the result
\* is the override's value with rule_id 'override' and reason LocalOverride,
\* the spec is not evaluated, the user's own entry is preferred to the
\* global "" entry, and this holds whatever the store's state.
C7_OverrideWins ==
    Checked /\ ApplicableOverride # <<>>
        => /\ returned.reason = "LocalOverride"
           /\ returned.rule_id = "override"
           /\ returned.secondary_exposures = <<>>
           /\ ~returned.threw
           /\ IF last.op = "checkGate"
              THEN returned.value = ApplicableOverride[1]
              ELSE returned.value /\ returned.json_value = ApplicableOverride[1]

\* a gate with a global override and a different override for the checked
\* user was checked while the store was uninitialized
C7_UserOverrideOverGlobal ==
    /\ Checked
    /\ last.op = "checkGate"
    /\ last.name \in DOMAIN gateOverrides
    /\ {"", "u1"} \subseteq DOMAIN gateOverrides[last.name]
    /\ gateOverrides[last.name]["u1"] # gateOverrides[last.name][""]
    /\ last.user = "u1"
    /\ initReason = "Uninitialized"
    /\ returned.reason = "LocalOverride"

\* the catalog the last check consulted
CheckedSpecs ==
    CASE last.op = "checkGate" -> store.gates
      [] last.op = "getConfig" -> store.configs
      [] OTHER -> store.layers

\* C8: with no override, a check on an Uninitialized store returns value
\* false with reason Uninitialized; on any other store a name that is not in
\* the catalog returns value false, rule_id '' and reason Unrecognized.
C8_UninitializedAndUnrecognized ==
    Checked /\ ApplicableOverride = <<>>
        => IF initReason = "Uninitialized"
           THEN ~returned.value /\ returned.reason = "Uninitialized"
           ELSE last.name \notin DOMAIN CheckedSpecs
                  => /\ ~returned.value
                     /\ returned.rule_id = ""
                     /\ returned.reason = "Unrecognized"

\* an unknown name was checked on a store that holds a catalog
C8_UnknownNameChecked ==
    /\ Checked
    /\ ApplicableOverride = <<>>
    /\ initReason # "Uninitialized"
    /\ CheckedSpecs # EmptyMap
    /\ last.name \notin DOMAIN CheckedSpecs
    /\ returned.reason = "Unrecognized"

ExposureKeys(exposures) ==
    {<<exposures[i].gate, exposures[i].gateValue, exposures[i].ruleID>> :
        i \in DOMAIN exposures}

\* C9: the secondary_exposures of an evaluation hold no two entries with the
\* same (gate, gateValue, ruleID) and no gate whose name starts 'segment:'.
C9_ExposuresClean ==
    Checked
        => /\ Cardinality(ExposureKeys(returned.secondary_exposures))
                = Len(returned.secondary_exposures)
           /\ \A i \in DOMAIN returned.secondary_exposures :
                 ~StartsWithSegment(returned.secondary_exposures[i].gate)

\* a gate whose rules consult a segment gate and the same gate twice was
\* evaluated and returned its exposures
C9_RepeatedGateEvaluated ==
    /\ Checked
    /\ last.name = "g3"
    /\ ApplicableOverride = <<>>
    /\ store.gates = SpecMap(PayloadCatalog.feature_gates)
    /\ initReason = "Network"
    /\ Len(returned.secondary_exposures) >= 2

\* C10: checkGate, getConfig and getLayer of the evaluator never throw,
\* whatever catalog _process installed.
C10_EvaluatorNeverThrows == ~returned.threw

\* a gate that passes on itself was installed and checked
C10_SelfReferringGateChecked ==
    /\ Checked
    /\ last.name = "g1"
    /\ store.gates = SpecMap(PayloadCycle.feature_gates)
    /\ returned.threw

-----------------------------------------------------------------------------
(***************************************************************************)
(* The startup specification: a server constructed with bootstrap values   *)
(* or none and no data adapter, initializeAsync called at any time, the    *)
(* rulesets poller and shutdown.                                           *)
(***************************************************************************)
PayloadZero == Payload(TRUE, <<0>>, <<GateOn>>, <<>>, <<>>, <<>>)

StartupPayloads == {PayloadA, PayloadB, PayloadZero, PayloadNoTime, PayloadNoUpdates}

StartupProfiles ==
    {Options(Bootstrap("json", p), NULL, FALSE, TRUE, DefaultIntervals, "none") :
        p \in StartupPayloads}
    \cup {Options(NoBootstrap, NULL, FALSE, TRUE, DefaultIntervals, "none")}

StartupResponses ==
    {Response("error", PayloadA)} \cup {Response("json", p) : p \in StartupPayloads}

StartupInit == Constructed(StartupProfiles)

StartupNext ==
    \/ InitializeAsync
    \/ \E allowReInitialize \in BOOLEAN : InitializeAsyncAgain(allowReInitialize)
    \/ \E p \in {PayloadA, PayloadB} : ReInitialize(Bootstrap("json", p))
    \/ InitFinally
    \/ \E resp \in StartupResponses : InitColdStartResponse(resp)
    \/ SyncTimerTick
    \/ \E resp \in StartupResponses : SpecFetchResponse("plain", resp)
    \/ Shutdown

StartupSpec == StartupInit /\ [][StartupNext]_vars

\* the step is an init whose bootstrap payload, which carries a time, was
\* accepted
BootstrapAccepted ==
    /\ last'.op = "initializeAsync"
    /\ last'.entry = "bootstrap"
    /\ last'.processed = "true"
    /\ last'.time # <<>>

\* the step is a syncValues whose server payload, which carries a time, was
\* accepted
NetworkAccepted ==
    /\ last'.op = "specFetchResponse"
    /\ last'.entry = "network"
    /\ last'.processed = "true"
    /\ last'.time # <<>>

NetworkAdvances ==
    NetworkAccepted
        => /\ lastUpdateTime' = last'.time[1]
           /\ initReason' = "Network"
           /\ initialUpdateTime' = initialUpdateTime

\* C11 (as stated): an init whose bootstrap payload of time t is accepted
\* sets initReason to Bootstrap and initialUpdateTime to t; a later accepted
\* server payload of time t' sets lastUpdateTime to t' and initReason to
\* Network and leaves initialUpdateTime alone.
C11_BootstrapThenNetwork_AsStated ==
    [][/\ BootstrapAccepted
            => initReason' = "Bootstrap" /\ initialUpdateTime' = last'.time[1]
       /\ NetworkAdvances]_vars

\* C11 (amended): the same, with initialUpdateTime = t for t # 0 and
\* initialUpdateTime = -1 for a bootstrap payload of time 0.
C11_BootstrapThenNetwork ==
    [][/\ BootstrapAccepted
            => /\ initReason' = "Bootstrap"
               /\ initialUpdateTime' = (IF last'.time[1] = 0 THEN -1 ELSE last'.time[1])
       /\ NetworkAdvances]_vars

\* a server bootstrapped at time 100 took a server payload of time 200
C11_NetworkAfterBootstrap ==
    /\ options.bootstrapValues.json = PayloadA
    /\ last.op = "specFetchResponse"
    /\ last.processed = "true"
    /\ initReason = "Network"
    /\ lastUpdateTime = 200
    /\ initialUpdateTime = 100

\* C12: an initializeAsync made while an earlier one is pending returns the
\* pending promise and starts no second Evaluator.init (no second cold-start
\* fetch); an initializeAsync without allowReInitialize on a ready server
\* resolves at once and does not run init.
C12_OneInitAtATime ==
    [][last'.op = "initializeAsync" /\ (pendingInitPromise \/ ready)
         => /\ last'.entry = (IF pendingInitPromise THEN "pending" ELSE "resolved")
            /\ UNCHANGED <<storeVars, syncFailureCount, initialized, timerVars,
                           taskVars, ready, pendingInitPromise>>]_vars

\* initializeAsync was called again while init awaited its cold-start fetch
C12_CalledWhileColdStartPending ==
    /\ last.op = "initializeAsync"
    /\ last.entry = "pending"
    /\ initPc = "coldStart"
    /\ pendingInitPromise

(***************************************************************************)
(* The validation specification: a server bootstrapped with the catalog,   *)
(* checked before, during and after initialization and after shutdown with *)
(* valid and invalid lookup names and users.                               *)
(***************************************************************************)
ValidationProfiles ==
    {Options(Bootstrap("json", PayloadCatalog), NULL, TRUE, TRUE, DefaultIntervals, "none")}

ValidationUsers == {User("u1", "x"), User(NULL, "x"), UserWithoutID("x")}

ValidationNames == {"g1", "c1", "l1", "", NULL}

ValidationInit == Constructed(ValidationProfiles)

ValidationNext ==
    \/ InitializeAsync
    \/ InitFinally
    \/ \E kind \in {"checkGate", "getConfig", "getLayer"}, user \in ValidationUsers, name \in ValidationNames : Check(kind, user, name)
    \/ Shutdown

ValidationSpec == ValidationInit /\ [][ValidationNext]_vars

\* the first rule the last check's inputs break, in the order not ready,
\* lookup name, user ("" when they break none)
FirstViolatedRule ==
    CASE ~ready -> "StatsigUninitializedError"
      [] last.name \in {NULL, ""} -> "Lookup key must be a non-empty string"
      [] last.user = NULL /\ last.customIDs = {} -> "Must pass a valid user"
      [] OTHER -> ""

\* C13: a check fails at the first rule its inputs break (server not ready,
\* name not a non-empty string, user with neither userID nor customIDs) and
\* then consults no evaluator and produces nothing to expose; with no rule
\* broken it returns an evaluation.
C13_ValidationOrder ==
    last.op \in {"checkGate", "getConfig", "getLayer"}
        => /\ last.error = FirstViolatedRule
           /\ (FirstViolatedRule # "") = (returned = NoEvaluation)

\* a ready server was asked with an empty name for a user without any id
C13_EmptyNameAndNoUser ==
    /\ last.op = "checkGate"
    /\ ready
    /\ last.name = ""
    /\ last.user = NULL
    /\ last.customIDs = {}
    /\ last.error = InvalidKeyError

(***************************************************************************)
(* The ID-list specification: a server whose lists are initialized lazily  *)
(* beside the ID-lists poller, so that syncs overlap; the manifest names   *)
(* one list whose file is replaced (f1, then f2), grows, or is older than  *)
(* the stored one (f0).                                                    *)
(***************************************************************************)
IdListResponses == {Response("json", PayloadA)}

IdListManifests ==
    {Manifest("error", <<>>),
     Manifest("lookup", <<>>),
     Manifest("lookup", <<ManifestEntry("list1", "url1", "f1", 1, 2)>>),
     Manifest("lookup", <<ManifestEntry("list1", "url2", "f2", 2, 2)>>),
     Manifest("lookup", <<ManifestEntry("list1", "url0", "f0", 0, 4)>>),
     Manifest("lookup", <<ManifestEntry("list1", NULL, "f2", 2, 2)>>)}

IdListChunks ==
    {Chunk("error", <<>>, <<>>), Chunk("ok", <<2>>, <<<<"+", "a">>>>),
     Chunk("ok", <<2>>, <<<<"-", "a">>>>)}

IdListInit == Constructed(OverlapProfiles)

IdListNext ==
    \/ InitializeAsync
    \/ \E resp \in IdListResponses : InitColdStartResponse(resp)
    \/ LazyIdListsTimeout
    \/ IdListsTimerTick
    \/ \E i \in 1..MaxOverlap, ans \in IdListManifests : IdListManifestAnswer(i, ans)
    \/ \E i \in 1..MaxOverlap, res \in IdListChunks : IdListChunkAnswer(i, res)

IdListSpec == IdListInit /\ [][IdListNext]_vars

\* the ranged GETs of list `name` among `fetches`
FetchesOf(fetches, name) == SelectSeq(fetches, LAMBDA f : f.name = name)

\* What the step did to the stored list of manifest entry e (a step that
\* processed a manifest naming e once, e's url and fileID being strings).
EntryShouldReset(e) ==
    \/ e.name \notin DOMAIN store.idLists
    \/ /\ e.fileID # store.idLists[e.name].fileID
       /\ e.creationTime >= store.idLists[e.name].creationTime

EntryOlder(e) ==
    /\ e.name \in DOMAIN store.idLists
    /\ e.creationTime < store.idLists[e.name].creationTime

EntryProcessed(e) ==
    /\ EntryShouldReset(e)
          => /\ e.name \in DOMAIN store'.idLists
             /\ store'.idLists[e.name] = IDList(e.url, e.fileID, e.creationTime)
             /\ \A i \in DOMAIN idListFetches' :
                   i > Len(idListFetches) /\ idListFetches'[i].name = e.name
                       => idListFetches'[i].readSize = 0
             /\ e.size > 0
                   => Len(FetchesOf(idListFetches', e.name))
                          = Len(FetchesOf(idListFetches, e.name)) + 1
    /\ ~EntryShouldReset(e)
          => /\ e.name \in DOMAIN store'.idLists
             /\ store'.idLists[e.name] = store.idLists[e.name]
    /\ EntryOlder(e) => idListFetches' = idListFetches

\* C14: processing a manifest entry (url and fileID strings) resets the
\* stored list to ids = {}, readBytes = 0 and the entry's url, fileID and
\* creationTime exactly when the name is new or the fileID differs and the
\* creationTime is not older; the GET started after a reset asks from offset
\* 0; an entry with an older creationTime leaves the list as it is and
\* starts no GET.
C14_ManifestEntryReset ==
    [][last'.op = "idListManifestAnswer"
         => \A i \in DOMAIN last'.lookup :
               last'.lookup[i].url # NULL /\ last'.lookup[i].fileID # NULL
                   => EntryProcessed(last'.lookup[i])]_vars

\* the list holds bytes of file f1 and the manifest has just replaced it by f2
C14_ResetToNewFile ==
    /\ last.op = "idListManifestAnswer"
    /\ last.lookup # <<>>
    /\ last.lookup[1].fileID = "f2"
    /\ last.lookup[1].url # NULL
    /\ "list1" \in DOMAIN store.idLists
    /\ store.idLists["list1"] = IDList("url2", "f2", 2)
    /\ \E i \in DOMAIN idListFetches :
          idListFetches[i].fileID = "f2" /\ idListFetches[i].readSize = 0
    /\ \E i \in DOMAIN idListFetches : idListFetches[i].fileID = "f1"

\* the last step was a ranged GET's response that genFetchIDList took in
\* without reaching its catch block, and the list is still stored
ChunkAbsorbed ==
    /\ last.op = "idListChunkAnswer"
    /\ last.contentLength # <<>>
    /\ last.logged = ""
    /\ last.fetch[1].name \in DOMAIN store.idLists

\* C15: readBytes of a stored list is the number of bytes of its current
\* file taken in so far: after a chunk requested for the current fileID from
\* offset readSize is absorbed, readBytes is readSize plus the chunk's
\* Content-Length, also when another sync requested the same range.
C15_ReadBytesIsBytesAbsorbed ==
    ChunkAbsorbed /\ store.idLists[last.fetch[1].name].fileID = last.fetch[1].fileID
        => store.idLists[last.fetch[1].name].readBytes
               = last.fetch[1].readSize + last.contentLength[1]

\* two GETs of the same file from offset 0 were both counted
C15_SameRangeCountedTwice ==
    /\ ChunkAbsorbed
    /\ store.idLists[last.fetch[1].name].fileID = last.fetch[1].fileID
    /\ last.fetch[1].readSize = 0
    /\ store.idLists[last.fetch[1].name].readBytes = 4
    /\ store.idLists[last.fetch[1].name].fileID = "f1"

\* C16: the response to a ranged GET that was requested for another fileID
\* than the one the list has now changes nothing in the stored lists.
C16_LateResponseDropped ==
    [][(/\ last'.op = "idListChunkAnswer"
        /\ last'.fetch[1].name \in DOMAIN store.idLists
        /\ store.idLists[last'.fetch[1].name].fileID # last'.fetch[1].fileID)
          => store'.idLists = store.idLists]_vars

\* a list of file f2 just took in the response to a GET requested for f1
C16_LateResponseApplied ==
    /\ last.op = "idListChunkAnswer"
    /\ last.fetch[1].fileID = "f1"
    /\ last.fetch[1].name \in DOMAIN store.idLists
    /\ store.idLists[last.fetch[1].name].fileID = "f2"
    /\ store.idLists[last.fetch[1].name].readBytes = 2
    /\ store.idLists[last.fetch[1].name].ids = {"a"}

(***************************************************************************)
(* The hash specification: a server bootstrapped with PayloadPercent whose *)
(* hashLookupTable is followed through the checks of three users.          *)
(***************************************************************************)
HashUsers == {User("u1", "x"), User("u2", "x"), User("u3", "x"), User("u1", "v")}

HashChecks ==
    {<<"checkGate", "p0">>, <<"checkGate", "p50">>, <<"checkGate", "p100">>,
     <<"getConfig", "c50">>}

HashOverrideInputs == {<<TRUE, "u1">>, <<FALSE, NULL>>}

HashInit == Constructed(HashProfiles)

HashNext ==
    \/ InitializeAsync
    \/ InitFinally
    \/ \E o \in HashOverrideInputs : overrideGate("p50", o[1], o[2])
    \/ \E c \in HashChecks, user \in HashUsers : Check(c[1], user, c[2])

HashSpec == HashInit /\ [][HashNext]_vars

TableSize == Cardinality(DOMAIN hashLookupTable)

HashedUser == [userID |-> last.user, email |-> last.email, customIDs |-> last.customIDs]

HashedSpec == CheckedSpecs[last.name]

ConditionsPass(rule) ==
    \A i \in DOMAIN rule.conditions :
        \/ rule.conditions[i].type = "public"
        \/ /\ rule.conditions[i].type = "user_field"
           /\ rule.conditions[i].targetValue = <<last.email>>

FirstPassingRule ==
    HashedSpec.rules[CHOOSE i \in DOMAIN HashedSpec.rules :
                        /\ ConditionsPass(HashedSpec.rules[i])
                        /\ \A j \in 1..(i - 1) : ~ConditionsPass(HashedSpec.rules[j])]

\* salt.ruleSalt.unitID of the last check falls below passPercentage * 100
PassesPercent(rule) ==
    sha256Hash(<<HashedSpec.salt, rule.salt, last.user>>) % 10000
        < rule.passPercentage * 100

\* the last check was answered by the rules of an enabled spec
EvaluatedByRules ==
    /\ Checked
    /\ ApplicableOverride = <<>>
    /\ last.name \in DOMAIN CheckedSpecs
    /\ HashedSpec.enabled
    /\ \E i \in DOMAIN HashedSpec.rules : ConditionsPass(HashedSpec.rules[i])

\* C18: for an enabled spec and its first rule whose conditions all pass
\* (no delegate): the user passes exactly when the hash of
\* salt.ruleSalt.unitID mod 10000 is below passPercentage * 100, so never
\* with passPercentage 0 and always with 100; json_value is the rule's
\* returnValue on a pass and the spec's defaultValue otherwise.
C18_PassPercentage ==
    EvaluatedByRules
        => /\ returned.rule_id = FirstPassingRule.id
           /\ returned.value = PassesPercent(FirstPassingRule)
           /\ FirstPassingRule.passPercentage = 0 => ~returned.value
           /\ FirstPassingRule.passPercentage = 100 => returned.value
           /\ returned.json_value = IF returned.value THEN FirstPassingRule.returnValue
                                    ELSE HashedSpec.defaultValue

\* a user was refused by a 50 percent rule and got the default value
C18_HalfRuleRefused ==
    /\ EvaluatedByRules
    /\ FirstPassingRule.passPercentage = 50
    /\ ~returned.value
    /\ returned.json_value = HashedSpec.defaultValue

LastBootstrapPayloads == {p \in StartupPayloads : p.time = last.time}

\* C20: right after syncBootstrapValues(p), a second syncBootstrapValues(p)
\* leaves gates, configs, layers, experimentToLayer and lastUpdateTime as
\* they are.
C20_BootstrapTwiceIsOnce ==
    last.entry = "bootstrap" /\ last.processed \in {"true", "false"}
        => \A p \in LastBootstrapPayloads :
              /\ _process(p, store, lastUpdateTime, samplingRates).store.gates = store.gates
              /\ _process(p, store, lastUpdateTime, samplingRates).store.configs
                     = store.configs
              /\ _process(p, store, lastUpdateTime, samplingRates).store.layers
                     = store.layers
              /\ _process(p, store, lastUpdateTime, samplingRates).store.experimentToLayer
                     = store.experimentToLayer
              /\ _process(p, store, lastUpdateTime, samplingRates).lastUpdateTime
                     = lastUpdateTime

\* a server bootstrapped with a payload was re-initialized with the same
\* payload, and took it
C20_SamePayloadTakenAgain ==
    /\ last.op = "reInitialize"
    /\ last.entry = "bootstrap"
    /\ last.processed = "true"
    /\ options.bootstrapValues.json.time = last.time
    /\ initialUpdateTime = lastUpdateTime
    /\ last.time = <<lastUpdateTime>>

-----------------------------------------------------------------------------
(***************************************************************************)
(* The installation specification: a store started cold or from bootstrap  *)
(* values, its rulesets poller, and every payload the control plane may    *)
(* answer with, well-formed or not.                                        *)
(***************************************************************************)
InstallProfiles ==
    {Options(NoBootstrap, NULL, FALSE, TRUE, DefaultIntervals, "none"),
     Options(Bootstrap("json", PayloadA), NULL, FALSE, TRUE, DefaultIntervals, "none"),
     Options(Bootstrap("json", PayloadBadSpec), NULL, FALSE, TRUE, DefaultIntervals,
             "none")}

InstallInit == Constructed(InstallProfiles)

InstallNext ==
    \/ InitializeAsync
    \/ InitFinally
    \/ \E resp \in NetworkResponses : InitColdStartResponse(resp)
    \/ SyncTimerTick
    \/ \E resp \in NetworkResponses : SpecFetchResponse("plain", resp)

InstallSpec == InstallInit /\ [][InstallNext]_vars

\* the four maps of the store that _process installs
StoreMaps(st) == <<st.gates, st.configs, st.layers, st.experimentToLayer>>

\* the four maps a payload that _process accepts builds
MapsOf(specsJSON) ==
    <<SpecMap(specsJSON.feature_gates), SpecMap(specsJSON.dynamic_configs),
      SpecMap(specsJSON.layer_configs), reverseLayerExperimentMapping(specsJSON.layers)>>

\* the payloads _process can accept
AcceptablePayloads == {p \in Payloads : RejectReason(p, 0) = ""}

\* C21: no partially installed update is ever visible: in every reachable
\* state, suspension points of init and syncValues included, either nothing
\* was installed yet (four empty maps, lastUpdateTime 0) or gates, configs,
\* layers and experimentToLayer are all the maps of one accepted payload and
\* lastUpdateTime is that payload's time (when it carries one): the time
\* moves in the step that installs the maps, and in no other.
C21_NoPartialInstall ==
    \/ /\ StoreMaps(store) = <<EmptyMap, EmptyMap, EmptyMap, EmptyMap>>
       /\ lastUpdateTime = 0
    \/ \E p \in AcceptablePayloads :
          /\ StoreMaps(store) = MapsOf(p)
          /\ p.time # <<>> => lastUpdateTime = p.time[1]

\* a payload from the network was installed over the bootstrap catalog
C21_ReplacedWhileSyncing ==
    /\ options.bootstrapValues = Bootstrap("json", PayloadA)
    /\ last.op = "specFetchResponse"
    /\ last.processed = "true"
    /\ StoreMaps(store) = MapsOf(PayloadB)
    /\ lastUpdateTime = PayloadB.time[1]

-----------------------------------------------------------------------------
(***************************************************************************)
(* Evaluator.getClientInitializeResponse: one payload with the evaluation  *)
(* of every gate, config and layer of the store for a user.  The names are *)
(* hashed (hashString, sha256 unless the caller chooses otherwise); the    *)
(* hash of a name stands as <<"sha256", name>>.                             *)
(***************************************************************************)
\* A store that serves as soon as anything was installed.
isServingChecksByReason(lut, reason) == reason # "Uninitialized"

\* SpecStore.isServingChecks
isServingChecks(lut, reason) == lut # 0

hashString(name) == <<"sha256", name>>

\* _specToInitializeResponse
_specToInitializeResponse(spec, res) ==
    [name |-> hashString(spec.name),
     value |-> IF res.unsupported THEN <<>> ELSE res.json_value,
     group |-> res.rule_id, rule_id |-> res.rule_id,
     secondary_exposures |-> _cleanExposures(res.secondary_exposures),
     group_name |-> res.group_name,
     allocated_experiment_name |-> <<>>,
     undelegated_secondary_exposures |-> <<>>]

getClientInitializeResponse(user, table) ==
    LET Gate(gate, res) ==
            [name |-> hashString(gate),
             value |-> IF res.unsupported THEN FALSE ELSE res.value,
             rule_id |-> res.rule_id,
             secondary_exposures |-> _cleanExposures(res.secondary_exposures)]
        Layer(spec, res) ==
            [_specToInitializeResponse(spec, res) EXCEPT
                !.allocated_experiment_name =
                    IF res.config_delegate # NULL
                    THEN <<hashString(res.config_delegate)>> ELSE <<>>,
                !.undelegated_secondary_exposures =
                    _cleanExposures(res.undelegated_secondary_exposures)]
        Built(gates, configs, layers) ==
            IF \/ \E n \in DOMAIN gates : gates[n].threw
               \/ \E n \in DOMAIN configs : configs[n].threw
               \/ \E n \in DOMAIN layers : layers[n].threw
            THEN ClientInitializeResponse("throw", {}, {}, {}, 0)
            ELSE ClientInitializeResponse(
                     "payload",
                     {Gate(n, gates[n]) : n \in DOMAIN gates},
                     {_specToInitializeResponse(store.configs[n], configs[n]) :
                         n \in DOMAIN configs},
                     {Layer(store.layers[n], layers[n]) : n \in DOMAIN layers},
                     lastUpdateTime)
    IN  IF ~isServingChecks(lastUpdateTime, initReason)
        THEN ClientInitializeResponse("null", {}, {}, {}, 0)
        ELSE Built([n \in DOMAIN store.gates |-> _eval(user, store.gates[n], 1, table)],
                   [n \in DOMAIN store.configs |-> _eval(user, store.configs[n], 1, table)],
                   [n \in DOMAIN store.layers |-> _eval(user, store.layers[n], 1, table)])

\* StatsigServer.getClientInitializeResponse: a server that is not ready
\* throws StatsigUninitializedError before it reaches the evaluator.
GetClientInitializeResponse(user) ==
    /\ last' = [Observe("getClientInitializeResponse") EXCEPT
                   !.error = IF ready THEN "" ELSE UninitializedError,
                   !.user = user.userID,
                   !.response = IF ready
                                THEN getClientInitializeResponse(user, hashLookupTable)
                                ELSE NoResponse]
    /\ returned' = NoEvaluation /\ UNCHANGED hashLookupTable
    /\ UNCHANGED <<options, initTimeouts,
                   storeVars, syncFailureCount, initialized, timerVars, clockVars,
                   taskVars, serverVars, overrideVars>>

(***************************************************************************)
(* The projection specification: a server started cold or from bootstrap   *)
(* values (with a time, with time 0, without a time, with gates that refer *)
(* to themselves), its rulesets poller, and hosts asking for the client    *)
(* payload at any time.                                                    *)
(***************************************************************************)
ProjectionProfiles ==
    {Options(Bootstrap("json", p), NULL, FALSE, TRUE, DefaultIntervals, "none") :
        p \in {PayloadA, PayloadZero, PayloadNoTime, PayloadCycle}}
    \cup {Options(NoBootstrap, NULL, FALSE, TRUE, DefaultIntervals, "none")}

ProjectionResponses ==
    {Response("error", PayloadA), Response("json", PayloadB),
     Response("json", PayloadNoTime)}

ProjectionInit == Constructed(ProjectionProfiles)

ProjectionNext ==
    \/ InitializeAsync
    \/ InitFinally
    \/ \E resp \in ProjectionResponses : InitColdStartResponse(resp)
    \/ SyncTimerTick
    \/ \E resp \in ProjectionResponses : SpecFetchResponse("plain", resp)
    \/ \E user \in {User("u1", "x"), User(NULL, "x")} : GetClientInitializeResponse(user)

ProjectionSpec == ProjectionInit /\ [][ProjectionNext]_vars

\* the evaluator's getClientInitializeResponse ran in the last step
Projected == last.op = "getClientInitializeResponse" /\ last.error = ""

-----------------------------------------------------------------------------
(***************************************************************************)
(* The replay specification: a store bootstrapped at time 100 or 200 whose *)
(* poller is answered with payloads that are older than, as old as, or     *)
(* without the time of what is installed.                                  *)
(***************************************************************************)
PayloadOlder == Payload(TRUE, <<150>>, <<GateDep>>, <<>>, <<>>, <<>>)
PayloadSameTime == Payload(TRUE, <<200>>, <<GateOn>>, <<Experiment>>, <<>>, <<>>)

ReplayPayloads == {PayloadOlder, PayloadSameTime, PayloadNoTime, PayloadNoUpdates}

ReplayProfiles ==
    {Options(Bootstrap("json", p), NULL, FALSE, TRUE, DefaultIntervals, "none") :
        p \in {PayloadA, PayloadB}}

ReplayInit == Constructed(ReplayProfiles)

ReplayNext ==
    \/ InitializeAsync
    \/ InitFinally
    \/ SyncTimerTick
    \/ \E p \in ReplayPayloads : SpecFetchResponse("plain", Response("json", p))
    \/ AdvanceClock

ReplaySpec == ReplayInit /\ [][ReplayNext]_vars

\* C23: a well-formed payload with has_updates is rejected by _process
\* exactly when it carries a time strictly less than lastUpdateTime, and then
\* the store and lastUpdateTime stay as they were (time 150 at
\* lastUpdateTime 200); any other, one of the store's own time included, is
\* accepted: its maps replace the store's and its time, when it carries one,
\* becomes lastUpdateTime.
C23_RejectedIffStrictlyOlder ==
    [][\A p \in ReplayPayloads :
          (/\ last'.op = "specFetchResponse"
           /\ last'.processed # "none"
           /\ last'.time = p.time
           /\ p.has_updates)
          => /\ last'.processed = "false"
                  <=> (p.time # <<>> /\ p.time[1] < lastUpdateTime)
             /\ last'.processed = "false"
                  => store' = store /\ lastUpdateTime' = lastUpdateTime
             /\ last'.processed # "false"
                  => /\ last'.processed = "true"
                     /\ StoreMaps(store') = MapsOf(p)
                     /\ lastUpdateTime' = IF p.time = <<>> THEN lastUpdateTime
                                          ELSE p.time[1]]_vars

\* a payload of time 200 was accepted at lastUpdateTime 200 and replaced
\* the maps of the bootstrap payload
C23_SameTimeReplaced ==
    /\ options.bootstrapValues = Bootstrap("json", PayloadB)
    /\ last.op = "specFetchResponse"
    /\ last.processed = "true"
    /\ last.time = <<200>>
    /\ lastUpdateTime = 200
    /\ StoreMaps(store) = MapsOf(PayloadSameTime)
    /\ StoreMaps(store) # MapsOf(PayloadB)

-----------------------------------------------------------------------------
(***************************************************************************)
(* The conflict specification: a server constructed with bootstrap values  *)
(* and a data adapter (one that is polled for the rulesets, one that is    *)
(* not), beside a server with the same bootstrap values and no adapter.    *)
(* The adapter and the network deliver other payloads than the bootstrap   *)
(* string holds.                                                           *)
(***************************************************************************)
ConflictProfiles ==
    {Options(Bootstrap("json", PayloadB), a, FALSE, TRUE, DefaultIntervals, "none") :
        a \in {"adapter", "polling", NULL}}

ConflictPayloads == {PayloadA, PayloadNoTime}

ConflictAdapterResponses ==
    {Response("error", PayloadA), Response("noResult", PayloadA)}
    \cup {Response("json", p) : p \in ConflictPayloads}

ConflictNetworkResponses ==
    {Response("error", PayloadA)} \cup {Response("json", p) : p \in ConflictPayloads}

ConflictResponses ==
    IF shouldSyncFromAdapter(options) THEN ConflictAdapterResponses
    ELSE ConflictNetworkResponses

ConflictInit == Constructed(ConflictProfiles)

ConflictNext ==
    \/ InitializeAsync
    \/ InitFinally
    \/ \E resolved \in BOOLEAN : InitAdapterInitialized(resolved)
    \/ \E resp \in ConflictAdapterResponses : InitAdapterFetched(resp)
    \/ \E resp \in ConflictResponses : InitColdStartResponse(resp)
    \/ SyncTimerTick
    \/ \E resp \in ConflictResponses : SpecFetchResponse("plain", resp)

ConflictSpec == ConflictInit /\ [][ConflictNext]_vars

\* C24: when bootstrapValues and a data adapter are both configured, init
\* does not give the bootstrap payload to _process: no step processes a
\* payload that entered as bootstrap values, initReason is never Bootstrap,
\* and what the store holds is nothing or the maps of a payload that the
\* adapter or the network delivered.
C24_AdapterWinsOverBootstrap ==
    (options.bootstrapValues.kind # "none" /\ options.dataAdapter # NULL)
    => /\ last.entry # "bootstrap"
       /\ initReason \in {"Uninitialized", "DataAdapter", "Network"}
       /\ StoreMaps(store) # MapsOf(options.bootstrapValues.json)
       /\ \/ StoreMaps(store) = <<EmptyMap, EmptyMap, EmptyMap, EmptyMap>>
          \/ \E p \in ConflictPayloads : StoreMaps(store) = MapsOf(p)

\* init of a server with bootstrap values and an adapter has completed with
\* the adapter's catalog
C24_AdapterCatalogInstalled ==
    /\ options.bootstrapValues.kind = "json"
    /\ options.dataAdapter # NULL
    /\ initPc = "done"
    /\ initialized
    /\ initReason = "DataAdapter"
    /\ StoreMaps(store) = MapsOf(PayloadA)

-----------------------------------------------------------------------------
(***************************************************************************)
(* The cold-start specification: servers without usable bootstrap values   *)
(* (none, or a payload _process turns down), with and without a data       *)
(* adapter, for each way of initializing the ID lists ("none", "lazy",     *)
(* awaited), beside one server whose bootstrap values are accepted.  Both  *)
(* pollers run once init has completed.                                    *)
(***************************************************************************)
ColdStartProfiles ==
    {Options(NoBootstrap, a, FALSE, FALSE, DefaultIntervals, s) :
        a \in {NULL, "polling"}, s \in {"none", "lazy", "await"}}
    \cup {Options(Bootstrap("json", PayloadNoUpdates), NULL, FALSE, FALSE,
                  DefaultIntervals, "await"),
          Options(Bootstrap("json", PayloadB), NULL, FALSE, FALSE, DefaultIntervals,
                  "lazy")}

ColdStartAdapterResponses ==
    {Response("error", PayloadA), Response("noResult", PayloadA),
     Response("json", PayloadA)}

ColdStartResponses ==
    IF shouldSyncFromAdapter(options) THEN ColdStartAdapterResponses
    ELSE {Response("error", PayloadA), Response("json", PayloadA),
          Response("json", PayloadNoTime)}

ColdStartManifests ==
    {Manifest("error", <<>>), Manifest("lookup", <<>>),
     Manifest("lookup", <<ManifestEntry("list1", "url1", "f1", 1, 2)>>)}

ColdStartInit == Constructed(ColdStartProfiles)

ColdStartNext ==
    \/ InitializeAsync
    \/ InitFinally
    \/ \E resolved \in BOOLEAN : InitAdapterInitialized(resolved)
    \/ \E resp \in ColdStartAdapterResponses : InitAdapterFetched(resp)
    \/ \E resp \in ColdStartResponses : InitColdStartResponse(resp)
    \/ SyncTimerTick
    \/ \E resp \in ColdStartResponses : SpecFetchResponse("plain", resp)
    \/ IdListsTimerTick
    \/ LazyIdListsTimeout
    \/ \E ans \in AdapterIdListAnswers : IdListAdapterAnswer(1, ans)
    \/ \E ans \in ColdStartManifests : IdListManifestAnswer(1, ans)
    \/ \E res \in Chunks : IdListChunkAnswer(1, res)

ColdStartSpec == ColdStartInit /\ [][ColdStartNext]_vars

\* init's bootstrap block runs and _process accepts the payload
BootstrapSucceeds ==
    /\ options.bootstrapValues.kind = "json"
    /\ options.dataAdapter = NULL
    /\ options.bootstrapValues.json.has_updates

\* initialUpdateTime is -1 for a lastUpdateTime of 0, and lastUpdateTime
\* otherwise
InitialTimeFollowsLast ==
    /\ initialUpdateTime = -1 <=> lastUpdateTime = 0
    /\ lastUpdateTime # 0 => initialUpdateTime = lastUpdateTime

\* C25: when init runs without a successful bootstrap, then at the step in
\* which its adapter and cold-start network attempts are over, and at the
\* step in which init completes (later, when the ID lists are awaited),
\* initialUpdateTime is -1 if and only if lastUpdateTime is still 0, and
\* otherwise is lastUpdateTime as those attempts left it.
C25_InitialUpdateTimeAfterColdStart ==
    [][(/\ ~BootstrapSucceeds
        /\ \/ initPc \in {"adapterFetch", "coldStart"} /\ initPc' = "idLists"
           \/ ~initialized /\ initialized')
       => InitialTimeFollowsLast']_vars

\* init completed after awaiting the ID lists, on the catalog that the
\* cold-start fetch brought after the adapter had nothing
C25_CompletedOnNetworkCatalog ==
    /\ ~BootstrapSucceeds
    /\ options.dataAdapter = "polling"
    /\ options.initStrategyForIDLists = "await"
    /\ initialized
    /\ initPc = "done"
    /\ lastUpdateTime = PayloadA.time[1]
    /\ initialUpdateTime = lastUpdateTime
    /\ last.op \in {"idListManifestAnswer", "idListAdapterAnswer"}

-----------------------------------------------------------------------------
(***************************************************************************)
(* The rules specification: a server bootstrapped with a catalog of        *)
(* disabled specs, specs of several rules, conditions of unknown type or   *)
(* operator (alone, behind gate conditions, behind a delegate) and layers  *)
(* that delegate to experiments; hosts check every name for three users.   *)
(***************************************************************************)
Mystery == ConfigCondition("mystery", <<>>, FALSE, NULL, NULL)

RuleGates ==
    <<GateOn,
      ConfigSpec("d1", FALSE, <<ConfigRule("rd", 100, <<PassGate("g1")>>, NULL, NULL)>>),
      ConfigSpec("h1", TRUE, <<ConfigRule("rh", 100, <<Public>>, NULL, NULL)>>),
      ConfigSpec("f1", TRUE,
                 <<ConfigRule("ra", 100, <<PassGate("g1"), UserField("email", "eq", "a")>>,
                              NULL, NULL),
                   ConfigRule("rb", 100, <<FailGate("d1"), UserField("email", "eq", "b")>>,
                              NULL, NULL),
                   ConfigRule("rc", 100, <<PassGate("h1")>>, NULL, NULL)>>),
      ConfigSpec("n1", TRUE,
                 <<ConfigRule("rn", 100, <<UserField("email", "eq", "q")>>, NULL, NULL),
                   ConfigRule("rm", 100, <<FailGate("g1")>>, NULL, NULL)>>),
      ConfigSpec("z1", TRUE, <<ConfigRule("rz", 0, <<Public>>, NULL, NULL)>>),
      ConfigSpec("x1", TRUE,
                 <<ConfigRule("rx1", 100, <<UserField("email", "eq", "a")>>, NULL, NULL),
                   ConfigRule("rx2", 100, <<Mystery>>, NULL, NULL)>>),
      ConfigSpec("x2", TRUE,
                 <<ConfigRule("rx3", 100, <<UserField("email", "regex", "x")>>,
                              NULL, NULL)>>),
      ConfigSpec("x3", TRUE, <<ConfigRule("rx4", 100, <<PassGate("x2")>>, NULL, NULL)>>),
      ConfigSpec("x4", TRUE,
                 <<ConfigRule("rx5", 100, <<MultiPassGate(<<"d1", "x1">>)>>, NULL, NULL)>>),
      ConfigSpec("x5", TRUE,
                 <<ConfigRule("rx6", 100, <<UserField("email", "eq", "a"), Mystery>>,
                              NULL, NULL),
                   ConfigRule("rx7", 100, <<Public>>, NULL, NULL)>>)>>

RuleConfigs ==
    <<ConfigSpec("e1", TRUE, <<ConfigRule("re1", 100, <<PassGate("h1")>>, NULL, "grpE")>>),
      ConfigSpec("e2", TRUE, <<ConfigRule("re2", 100, <<Public>>, NULL, NULL)>>),
      ConfigSpec("ex", TRUE, <<ConfigRule("rex", 100, <<Mystery>>, NULL, NULL)>>)>>

RuleLayers ==
    <<ConfigSpec("l1", TRUE,
                 <<ConfigRule("rl0", 100, <<PassGate("g1"), UserField("email", "eq", "a")>>,
                              NULL, NULL),
                   ConfigRule("rl1", 100, <<FailGate("d1")>>, "e1", "grpL")>>),
      ConfigSpec("l2", TRUE, <<ConfigRule("rl2", 100, <<Public>>, "e2", "grpL2")>>),
      ConfigSpec("l3", TRUE, <<ConfigRule("rl3", 100, <<Public>>, "missing", "grpL3")>>),
      ConfigSpec("l4", TRUE, <<ConfigRule("rl4", 100, <<PassGate("g1")>>, "ex", NULL)>>)>>

PayloadRules ==
    Payload(TRUE, <<100>>, RuleGates, RuleConfigs, RuleLayers,
            <<LayerEntry("l1", <<"e1">>), LayerEntry("l2", <<"e2">>)>>)

RuleProfiles ==
    {Options(Bootstrap("json", PayloadRules), NULL, TRUE, TRUE, DefaultIntervals, "none")}

RuleUsers == {User("u1", "a"), User("u1", "b"), User("u2", "x")}

RuleChecks ==
    {<<"checkGate", RuleGates[i].name>> : i \in DOMAIN RuleGates}
    \cup {<<"getConfig", RuleConfigs[i].name>> : i \in DOMAIN RuleConfigs}
    \cup {<<"getLayer", RuleLayers[i].name>> : i \in DOMAIN RuleLayers}

RuleInit == Constructed(RuleProfiles)

RuleNext ==
    \/ InitializeAsync
    \/ InitFinally
    \/ \E c \in RuleChecks, user \in RuleUsers : Check(c[1], user, c[2])

RuleSpec == RuleInit /\ [][RuleNext]_vars

\* the spec the last check looked up
RuleCheckedSpec ==
    (CASE last.op = "checkGate" -> store.gates
       [] last.op = "getConfig" -> store.configs
       [] OTHER -> store.layers)[last.name]

\* the value of a gate whose rules have the one condition `public`
PublicGateValue(gateName) ==
    LET gate == store.gates[gateName]
    IN  gate.enabled /\ \E i \in DOMAIN gate.rules : gate.rules[i].passPercentage = 100

\* a condition of type public, user_field/eq, or pass_gate/fail_gate on a
\* gate of public rules holds for the user of the last check
ConditionHolds(condition) ==
    CASE condition.type = "public" -> TRUE
      [] condition.type = "user_field" -> condition.targetValue = <<last.email>>
      [] condition.type = "pass_gate" -> PublicGateValue(condition.targetValue[1])
      [] OTHER -> ~PublicGateValue(condition.targetValue[1])

RuleHolds(rule) == \A i \in DOMAIN rule.conditions : ConditionHolds(rule.conditions[i])

\* the index of the first rule of the spec whose conditions all hold, 0
\* when there is none
FirstHolding(spec) ==
    IF \E i \in DOMAIN spec.rules : RuleHolds(spec.rules[i])
    THEN CHOOSE i \in DOMAIN spec.rules :
            /\ RuleHolds(spec.rules[i])
            /\ \A j \in 1..(i - 1) : ~RuleHolds(spec.rules[j])
    ELSE 0

\* the gates that the conditions of rules 1..k of the spec name
GatesAsked(spec, k) ==
    {spec.rules[i].conditions[j].targetValue[1] :
        <<i, j>> \in {<<i, j>> \in (1..k) \X (1..2) :
                         /\ j \in DOMAIN spec.rules[i].conditions
                         /\ spec.rules[i].conditions[j].type \in {"pass_gate", "fail_gate"}}}

\* the gates named by the exposures of the result
GatesExposed == {returned.secondary_exposures[i].gate : i \in DOMAIN returned.secondary_exposures}

\* the specs that neither delegate nor hold a condition of unknown type or
\* operator
PlainSpecNames == {"g1", "d1", "h1", "f1", "n1", "z1", "e1", "e2"}

\* C26: _eval of a disabled spec gives value false, rule_id 'disabled' and
\* json_value = defaultValue, and no rule was evaluated (no exposures); of
\* an enabled spec, rule_id is the id of the first rule in declaration order
\* whose conditions all pass, the rules after it were not evaluated (the
\* exposures name the gates of the rules up to it, and no others); when no
\* rule passes the result is value false, rule_id 'default', json_value =
\* defaultValue, after every rule was evaluated.
C26_FirstPassingRuleWins ==
    (Checked /\ last.name \in PlainSpecNames)
    => LET Expected(spec, k) ==
               IF ~spec.enabled
               THEN /\ ~returned.value
                    /\ returned.rule_id = "disabled"
                    /\ returned.json_value = spec.defaultValue
                    /\ returned.secondary_exposures = <<>>
               ELSE IF k = 0
               THEN /\ ~returned.value
                    /\ returned.rule_id = "default"
                    /\ returned.json_value = spec.defaultValue
                    /\ GatesExposed = GatesAsked(spec, Len(spec.rules))
               ELSE /\ returned.rule_id = spec.rules[k].id
                    /\ GatesExposed = GatesAsked(spec, k)
       IN  Expected(RuleCheckedSpec, FirstHolding(RuleCheckedSpec))

\* the second of three rules answered: the first was evaluated and did not
\* pass, the third was not evaluated
C26_SecondRuleAnswered ==
    /\ Checked
    /\ last.name = "f1"
    /\ returned.rule_id = "rb"
    /\ returned.value
    /\ GatesExposed = {"g1", "d1"}

\* a condition whose type or operator _evalCondition has no case for
UnknownCondition(condition) ==
    \/ condition.type \notin {"public", "user_field", "pass_gate", "fail_gate",
                              "multi_pass_gate", "multi_fail_gate"}
    \/ condition.type = "user_field" /\ condition.operator \notin {"eq", "neq", "any"}

RuleHasUnknown(rule) == \E j \in DOMAIN rule.conditions : UnknownCondition(rule.conditions[j])

\* a rule of conditions that ConditionHolds decides
PlainRule(rule) ==
    \A j \in DOMAIN rule.conditions :
        /\ ~UnknownCondition(rule.conditions[j])
        /\ rule.conditions[j].type \in {"public", "user_field", "pass_gate", "fail_gate"}

\* rule i of the spec is evaluated: the rules before it did not pass
RuleReached(spec, i) ==
    \A h \in 1..(i - 1) : PlainRule(spec.rules[h]) /\ ~RuleHolds(spec.rules[h])

\* an unknown condition in a rule of the spec itself, up to and including
\* the first passing rule
DirectlyUnsupported(spec) ==
    /\ spec.enabled
    /\ \E i \in DOMAIN spec.rules : RuleReached(spec, i) /\ RuleHasUnknown(spec.rules[i])

\* the condition asks for the gate: a pass_gate / fail_gate on it, or a
\* multi_pass_gate that names it after gates that do not pass
GateAsked(condition, gateName) ==
    \/ /\ condition.type \in {"pass_gate", "fail_gate"}
       /\ condition.targetValue = <<gateName>>
    \/ /\ condition.type = "multi_pass_gate"
       /\ \E j \in DOMAIN condition.targetValue :
             /\ condition.targetValue[j] = gateName
             /\ \A h \in 1..(j - 1) : ~PublicGateValue(condition.targetValue[h])

\* evaluation of the spec reaches an unknown condition: in its own rules,
\* in a gate that one of its conditions asks for, or in the config that its
\* first passing rule delegates to
ReachesUnknown(spec) ==
    \/ DirectlyUnsupported(spec)
    \/ /\ spec.enabled
       /\ \E i \in DOMAIN spec.rules :
             /\ RuleReached(spec, i)
             /\ \E j \in DOMAIN spec.rules[i].conditions, g \in DOMAIN store.gates :
                   /\ GateAsked(spec.rules[i].conditions[j], g)
                   /\ DirectlyUnsupported(store.gates[g])
    \/ /\ spec.enabled
       /\ \E i \in DOMAIN spec.rules :
             /\ RuleReached(spec, i)
             /\ PlainRule(spec.rules[i])
             /\ RuleHolds(spec.rules[i])
             /\ spec.rules[i].configDelegate \in DOMAIN store.configs
             /\ DirectlyUnsupported(store.configs[spec.rules[i].configDelegate])

\* C27: when the evaluation of a checkGate / getConfig / getLayer reaches a
\* condition of unknown type or unknown operator (in a rule up to and
\* including the first passing one, in a gate asked for by a pass_gate,
\* fail_gate or multi gate condition, or in a delegated config) the result
\* has unsupported = true, value = false and reason Unsupported.
C27_UnknownConditionIsUnsupported ==
    (Checked /\ ReachesUnknown(RuleCheckedSpec))
    => /\ returned.unsupported
       /\ ~returned.value
       /\ returned.reason = "Unsupported"

\* a layer whose rule delegates to a config with a condition of unknown
\* type was answered as unsupported
C27_UnsupportedBehindDelegate ==
    /\ Checked
    /\ last.op = "getLayer"
    /\ last.name = "l4"
    /\ ReachesUnknown(RuleCheckedSpec)
    /\ ~DirectlyUnsupported(RuleCheckedSpec)
    /\ returned.unsupported
    /\ returned.reason = "Unsupported"

\* the exposure that a pass_gate / fail_gate condition on a gate of public
\* rules adds
GateExposure(gateName) ==
    SecondaryExposure(gateName, BoolString(PublicGateValue(gateName)),
                      IF store.gates[gateName].enabled
                      THEN store.gates[gateName].rules[1].id ELSE "disabled")

\* the exposures that the conditions of a plain rule add, in their order
ConditionExposures(rule) ==
    LET asked == SelectSeq(rule.conditions,
                           LAMBDA c : c.type \in {"pass_gate", "fail_gate"})
    IN  [j \in 1..Len(asked) |-> GateExposure(asked[j].targetValue[1])]

\* the exposures gathered by rules 1..k of the spec
RECURSIVE ExposuresUpTo(_, _)
ExposuresUpTo(spec, k) ==
    IF k = 0 THEN <<>>
    ELSE ExposuresUpTo(spec, k - 1) \o ConditionExposures(spec.rules[k])

\* the layers whose rules are plain and whose delegates, where they exist,
\* are plain experiments
DelegatingNames == {"l1", "l2", "l3"}

\* C28: when the first passing rule names a configDelegate that the store
\* holds, the result is the delegate's evaluation (its value, rule_id and
\* json_value) with config_delegate = that name,
\* undelegated_secondary_exposures = the exposures gathered in the outer
\* spec up to the delegating rule, secondary_exposures = those followed by
\* the delegate's, explicit_parameters of the delegate, and group_name of
\* the delegate or, when that is null, of the delegating rule; when the
\* store does not hold the delegate, or the rule names none, the rule is
\* evaluated without delegation.
C28_DelegateEvaluation ==
    (Checked /\ last.op = "getLayer" /\ last.name \in DelegatingNames)
    => LET Delegated(rule, outer, delegate, passing) ==
               /\ returned.config_delegate = rule.configDelegate
               /\ returned.undelegated_secondary_exposures = outer
               /\ returned.secondary_exposures
                     = outer \o ExposuresUpTo(delegate, FirstHolding(delegate))
               /\ returned.explicit_parameters = delegate.explicitParameters
               /\ returned.rule_id = passing.id
               /\ returned.value
               /\ returned.json_value = passing.returnValue
               /\ returned.group_name = IF passing.groupName # NULL THEN passing.groupName
                                        ELSE rule.groupName
           Undelegated(spec, rule, outer) ==
               /\ returned.config_delegate = NULL
               /\ returned.undelegated_secondary_exposures = outer
               /\ returned.secondary_exposures = outer
               /\ returned.explicit_parameters = spec.explicitParameters
               /\ returned.rule_id = rule.id
               /\ returned.value
               /\ returned.json_value = rule.returnValue
               /\ returned.group_name = rule.groupName
           Expected(spec, k) ==
               IF spec.rules[k].configDelegate \in DOMAIN store.configs
               THEN Delegated(spec.rules[k], ExposuresUpTo(spec, k),
                              store.configs[spec.rules[k].configDelegate],
                              store.configs[spec.rules[k].configDelegate].rules[
                                  FirstHolding(store.configs[spec.rules[k].configDelegate])])
               ELSE Undelegated(spec, spec.rules[k], ExposuresUpTo(spec, k))
       IN  Expected(RuleCheckedSpec, FirstHolding(RuleCheckedSpec))

\* the second rule of a layer delegated to an experiment: two exposures
\* were gathered before the delegate was evaluated, one by the delegate
C28_DelegatedAfterTwoExposures ==
    /\ Checked
    /\ last.op = "getLayer"
    /\ last.name = "l1"
    /\ returned.config_delegate = "e1"
    /\ returned.group_name = "grpE"
    /\ Len(returned.undelegated_secondary_exposures) = 2
    /\ Len(returned.secondary_exposures) = 3

\* the steps in which a syncIdListsFromDataAdapter, a syncIdListsFromNetwork
\* or a genFetchIDList call takes its answer
IdListAnswerOps == {"idListAdapterAnswer", "idListManifestAnswer", "idListChunkAnswer"}

\* no ID-list sync is suspended in a request, and none is scheduled
NoIdListWork == idListSyncs = <<>> /\ idListFetches = <<>>

\* no sync or fetch that init's _initIDLists awaits is outstanding
InitIdListsOver ==
    /\ \A i \in DOMAIN idListSyncs : idListSyncs[i].owner # "init"
    /\ \A i \in DOMAIN idListFetches : idListFetches[i].owner # "init"

\* C29: ID lists are initialized as initStrategyForIDLists says.  With
\* 'none' no request for the ID lists is ever made or scheduled, by init or
\* by a later syncIdLists call (the poller's ticks included).  With 'lazy'
\* the step that completes init has only scheduled _initIDLists: no ID-list
\* request was made yet.  With any other value the step that completes init
\* is the one in which the sync that _initIDLists awaits takes its last
\* answer.
C29_IdListStrategy ==
    [][/\ options.initStrategyForIDLists = "none"
            => (NoIdListWork' /\ ~lazyIdLists' /\ last'.op \notin IdListAnswerOps)
       /\ (options.initStrategyForIDLists = "lazy" /\ ~initialized /\ initialized')
            => (NoIdListWork' /\ lazyIdLists' /\ store'.idLists = EmptyMap)
       /\ (/\ options.initStrategyForIDLists \notin {"none", "lazy"}
           /\ ~initialized /\ initialized')
            => (/\ last'.op \in IdListAnswerOps
                /\ initPc = "idLists"
                /\ ~InitIdListsOver
                /\ InitIdListsOver')]_vars

\* init has completed under 'lazy' while _initIDLists is still only
\* scheduled
C29_LazyCompletedBeforeFirstSync ==
    /\ options.initStrategyForIDLists = "lazy"
    /\ initialized
    /\ initPc = "done"
    /\ lazyIdLists
    /\ store.idLists = EmptyMap

(***************************************************************************)
(* The removal specification: the server of the ID-list specification, but *)
(* the manifests name none, one or both of two lists, so that a manifest   *)
(* leaves out a list that an earlier one put into the store.               *)
(***************************************************************************)
RemovalManifests ==
    {Manifest("error", <<>>),
     Manifest("lookup", <<>>),
     Manifest("lookup", <<ManifestEntry("list1", "url1", "f1", 1, 2)>>),
     Manifest("lookup", <<ManifestEntry("list2", "url2", "g1", 1, 2)>>),
     Manifest("lookup", <<ManifestEntry("list1", "url1", "f1", 1, 2),
                          ManifestEntry("list2", "url2", "g1", 1, 2)>>)}

RemovalChunks == {Chunk("error", <<>>, <<>>), Chunk("ok", <<2>>, <<<<"+", "a">>>>)}

RemovalInit == Constructed(OverlapProfiles)

RemovalNext ==
    \/ InitializeAsync
    \/ \E resp \in IdListResponses : InitColdStartResponse(resp)
    \/ LazyIdListsTimeout
    \/ IdListsTimerTick
    \/ \E i \in 1..MaxOverlap, ans \in RemovalManifests : IdListManifestAnswer(i, ans)
    \/ \E i \in 1..MaxOverlap, res \in RemovalChunks : IdListChunkAnswer(i, res)

RemovalSpec == RemovalInit /\ [][RemovalNext]_vars

\* the names a manifest lists
ManifestNames(lookup) == {lookup[i].name : i \in DOMAIN lookup}

\* C30: the step of a network ID-list sync that processes a manifest removes
\* every stored list whose name the manifest does not list: the names stored
\* after the step are among the manifest's names.
C30_AbsentListsRemoved ==
    [][(/\ last'.op = "idListManifestAnswer"
        /\ last'.manifest = "lookup")
          => /\ \A n \in (DOMAIN store.idLists) \ ManifestNames(last'.lookup) :
                    n \notin DOMAIN store'.idLists
             /\ DOMAIN store'.idLists \subseteq ManifestNames(last'.lookup)]_vars

\* a manifest that lists list2 only was just processed while a ranged GET
\* of list1, started for an earlier manifest, is still in flight: list1 is
\* gone from the store
C30_ListDroppedWhileFetched ==
    /\ last.op = "idListManifestAnswer"
    /\ last.manifest = "lookup"
    /\ ManifestNames(last.lookup) = {"list2"}
    /\ \E i \in DOMAIN idListFetches : idListFetches[i].name = "list1"
    /\ DOMAIN store.idLists = {"list2"}

(***************************************************************************)
(* The ingest specification: the server of the ID-list specification; the  *)
(* manifest names one list of 4 bytes, and the ranged GETs are answered    *)
(* with an error, without a Content-Length header, with a Content-Length   *)
(* and well-formed lines, or with a line that starts with neither + nor -. *)
(***************************************************************************)
IngestManifests ==
    {Manifest("error", <<>>),
     Manifest("lookup", <<ManifestEntry("list1", "url1", "f1", 1, 4)>>)}

IngestChunks ==
    {Chunk("error", <<>>, <<>>),
     Chunk("ok", <<>>, <<<<"+", "b">>>>),
     Chunk("ok", <<2>>, <<<<"+", "a">>>>),
     Chunk("ok", <<3>>, <<<<"-", "a">>>>),
     Chunk("ok", <<2>>, <<<<"?", "a">>>>)}

IngestInit == Constructed(OverlapProfiles)

IngestNext ==
    \/ InitializeAsync
    \/ \E resp \in IdListResponses : InitColdStartResponse(resp)
    \/ LazyIdListsTimeout
    \/ IdListsTimerTick
    \/ \E i \in 1..MaxOverlap, ans \in IngestManifests : IdListManifestAnswer(i, ans)
    \/ \E i \in 1..MaxOverlap, res \in IngestChunks : IdListChunkAnswer(i, res)

IngestSpec == IngestInit /\ [][IngestNext]_vars

\* the step takes in the response (not a failed request) to a ranged GET of
\* a list that is stored
ChunkForStoredList ==
    /\ last'.op = "idListChunkAnswer"
    /\ last'.chunk = "ok"
    /\ last'.fetch[1].name \in DOMAIN store.idLists

\* C31 (as stated): a response without Content-Length drops the list from
\* the store and the failure is reported.
C31_MissingLengthDropsList ==
    [][(ChunkForStoredList /\ last'.contentLength = <<>>)
          => /\ last'.fetch[1].name \notin DOMAIN store'.idLists
             /\ last'.logged = "warn"]_vars

\* C31: the Content-Length of a ranged GET's response is added to the list's
\* readBytes (whatever the body holds) when the list survives the parsing of
\* the lines; a response without Content-Length is reported with a warning
\* and leaves every stored list, this one included, as it was.
C31_MissingLengthKeepsList ==
    [][ChunkForStoredList
          => IF last'.contentLength = <<>>
             THEN /\ store'.idLists = store.idLists
                  /\ last'.logged = "warn"
             ELSE last'.fetch[1].name \in DOMAIN store'.idLists
                    => /\ store'.idLists[last'.fetch[1].name].readBytes
                            = store.idLists[last'.fetch[1].name].readBytes
                                + last'.contentLength[1]
                       /\ last'.logged = ""]_vars

\* a response without Content-Length was just reported while list1, which
\* had taken in 2 bytes and the id a, is still stored as it was
C31_UnmeasuredChunkReported ==
    /\ last.op = "idListChunkAnswer"
    /\ last.chunk = "ok"
    /\ last.contentLength = <<>>
    /\ last.logged = "warn"
    /\ last.fetch[1].name = "list1"
    /\ "list1" \in DOMAIN store.idLists
    /\ store.idLists["list1"].readBytes = 2
    /\ store.idLists["list1"].ids = {"a"}

(***************************************************************************)
(* The failure specification: servers whose rulesets poller runs every     *)
(* 60000, 100000 or 200000 ms (the warning is due at the third, second and *)
(* first failure in a row), one of them polling a data adapter; the        *)
(* fetches fail in every way the code distinguishes, or succeed.           *)
(***************************************************************************)
FailureProfiles ==
    {Options(NoBootstrap, NULL, FALSE, TRUE, <<i, i>>, "none") :
        i \in {60000, 100000, 200000}}
    \cup {Options(NoBootstrap, "polling", FALSE, TRUE, <<60000, 60000>>, "none")}

FailureNetworkResponses ==
    {Response(k, PayloadA) : k \in {"error", "localModeError", "noResponse", "invalidJSON"}}
    \cup {Response("json", p) : p \in {PayloadA, PayloadNoUpdates, PayloadBadLayers}}

FailureAdapterResponses ==
    {Response(k, PayloadA) : k \in {"error", "noResult", "invalidJSON"}}
    \cup {Response("json", p) : p \in {PayloadA, PayloadNoUpdates, PayloadBadLayers}}

FailureResponses ==
    IF shouldSyncFromAdapter(options) THEN FailureAdapterResponses
    ELSE FailureNetworkResponses

FailureInit == Constructed(FailureProfiles)

FailureNext ==
    \/ InitializeAsync
    \/ \E resolved \in BOOLEAN : InitAdapterInitialized(resolved)
    \/ \E resp \in FailureAdapterResponses : InitAdapterFetched(resp)
    \/ \E resp \in FailureResponses : InitColdStartResponse(resp)
    \/ SyncTimerTick
    \/ \E resp \in FailureResponses : SpecFetchResponse("plain", resp)

FailureSpec == FailureInit /\ [][FailureNext]_vars

\* the fetch, or the processing of what it brought, throws: the request or
\* the adapter's get rejects, the text is not JSON, or the layers of the
\* payload cannot be iterated
SyncFails(resp) ==
    \/ resp.kind \in {"error", "localModeError", "invalidJSON"}
    \/ resp.kind = "json" /\ resp.json = PayloadBadLayers

\* what a syncValues outside init leaves behind
SteadyFailureHandling(resp) ==
    IF ~SyncFails(resp)
    THEN syncFailureCount' = 0 /\ last'.logged = ""
    ELSE IF resp.kind = "localModeError"
    THEN syncFailureCount' = syncFailureCount + 1 /\ last'.logged = ""
    ELSE IF (syncFailureCount + 1) * options.rulesetsSyncIntervalMs > SYNC_OUTDATED_MAX
    THEN syncFailureCount' = 0 /\ last'.logged = "warn"
    ELSE syncFailureCount' = syncFailureCount + 1 /\ last'.logged = ""

\* what init's syncValues(true) leaves behind
ColdFailureHandling(resp) ==
    IF ~SyncFails(resp)
    THEN syncFailureCount' = 0 /\ last'.logged = ""
    ELSE /\ syncFailureCount' = syncFailureCount + 1
         /\ last'.logged = IF resp.kind = "localModeError" THEN "" ELSE "error"

\* C32: a syncValues whose fetch does not throw sets syncFailureCount to 0; a
\* failed one outside init adds one to it and, unless the failure is a
\* local-mode error, logs a warning and sets the count to 0 exactly when the
\* count times the sync interval exceeds 120000 ms; a failed cold start logs
\* an error, never a warning.
C32_FailureThrottling ==
    [][\A resp \in FailureResponses :
          /\ SpecFetchResponse("plain", resp) => SteadyFailureHandling(resp)
          /\ InitColdStartResponse(resp) => ColdFailureHandling(resp)]_vars

\* the third failed sync in a row of a server that polls every 60000 ms has
\* just been answered with a warning and the count is 0 again
C32_WarnedAtThirdFailure ==
    /\ options.rulesetsSyncIntervalMs = 60000
    /\ last.op = "specFetchResponse"
    /\ last.logged = "warn"
    /\ syncFailureCount = 0
    /\ lastUpdateTime = 0

(***************************************************************************)
(* The callback specification: servers with a rulesUpdatedCallback that    *)
(* start cold, from bootstrap values, or beside a data adapter (polled for *)
(* rulesets or not), so that payloads reach _process from the bootstrap,   *)
(* from the adapter and from the network.                                  *)
(***************************************************************************)
CallbackProfiles ==
    {Options(b, NULL, FALSE, TRUE, DefaultIntervals, "none") :
        b \in {NoBootstrap, Bootstrap("json", PayloadA)}}
    \cup {Options(NoBootstrap, a, FALSE, TRUE, DefaultIntervals, "none") :
            a \in {"adapter", "polling"}}

CallbackPayloads == {PayloadA, PayloadB, PayloadNoTime, PayloadNoUpdates}

CallbackAdapterResponses ==
    {Response("error", PayloadA), Response("noResult", PayloadA)}
    \cup {Response("json", p) : p \in CallbackPayloads}

CallbackNetworkResponses ==
    {Response("error", PayloadA)} \cup {Response("json", p) : p \in CallbackPayloads}

CallbackResponses ==
    IF shouldSyncFromAdapter(options) THEN CallbackAdapterResponses
    ELSE CallbackNetworkResponses

CallbackInit == Constructed(CallbackProfiles)

CallbackNext ==
    \/ InitializeAsync
    \/ InitFinally
    \/ \E resolved \in BOOLEAN : InitAdapterInitialized(resolved)
    \/ \E resp \in CallbackAdapterResponses : InitAdapterFetched(resp)
    \/ \E resp \in CallbackResponses : InitColdStartResponse(resp)
    \/ SyncTimerTick
    \/ \E resp \in CallbackResponses : SpecFetchResponse("plain", resp)

CallbackSpec == CallbackInit /\ [][CallbackNext]_vars

\* the step is a syncValues, of init or of the poller, that got resp from
\* the network
NetworkAnswer(resp) ==
    /\ ~shouldSyncFromAdapter(options)
    /\ InitColdStartResponse(resp) \/ SpecFetchResponse("plain", resp)

\* the step told the callback and the adapter of the payload it installed
ToldAfterCommit(specsJSON) ==
    /\ StoreMaps(store') = MapsOf(specsJSON)
    /\ lastUpdateTime' = IF specsJSON.time = <<>> THEN lastUpdateTime
                         ELSE specsJSON.time[1]
    /\ initReason' = "Network"
    /\ last'.callback
    /\ last'.callbackTime = <<lastUpdateTime'>>
    /\ last'.saved = (options.dataAdapter # NULL)
    /\ last'.saved => last'.savedTime = <<lastUpdateTime'>>

\* C33: rulesUpdatedCallback is invoked and the payload is pushed to the data
\* adapter (when there is one) by the steps in which _process accepts a
\* payload from the network, with the store's new lastUpdateTime and after
\* the four maps were replaced, and by no other step: not for a payload
\* that was turned down, not for the bootstrap values, not for a payload
\* read from the adapter.
C33_ToldOnlyOfNetworkUpdates ==
    [][/\ \A resp \in CallbackNetworkResponses :
            (/\ NetworkAnswer(resp)
             /\ resp.kind = "json"
             /\ RejectReason(resp.json, lastUpdateTime) = "")
               => ToldAfterCommit(resp.json)
       /\ (last'.callback \/ last'.saved)
            => \E resp \in CallbackNetworkResponses :
                  /\ NetworkAnswer(resp)
                  /\ resp.kind = "json"
                  /\ RejectReason(resp.json, lastUpdateTime) = ""]_vars

\* a server beside a data adapter that is not polled for rulesets has just
\* installed PayloadB from the network, told the callback and pushed the
\* payload to the adapter, both with time 200
C33_NetworkUpdateSavedToAdapter ==
    /\ options.dataAdapter = "adapter"
    /\ last.op = "specFetchResponse"
    /\ last.callbackTime = <<200>>
    /\ last.savedTime = <<200>>
    /\ lastUpdateTime = 200
    /\ initReason = "Network"
    /\ StoreMaps(store) = MapsOf(PayloadB)

(***************************************************************************)
(* The shutdown specification: servers that start cold, with and without   *)
(* initTimeoutMs, or from bootstrap values; shutdown, checks and further   *)
(* initializeAsync calls arrive at any point of the initialization.        *)
(***************************************************************************)
WithInitTimeout(opts) == [opts EXCEPT !.initTimeoutMs = 3000]

ShutdownProfiles ==
    {Options(NoBootstrap, NULL, FALSE, TRUE, DefaultIntervals, "none"),
     WithInitTimeout(Options(NoBootstrap, NULL, FALSE, TRUE, DefaultIntervals, "none")),
     Options(Bootstrap("json", PayloadA), NULL, FALSE, TRUE, DefaultIntervals, "none")}

ShutdownResponses == {Response("error", PayloadA), Response("json", PayloadA)}

ShutdownInit == Constructed(ShutdownProfiles)

ShutdownNext ==
    \/ InitializeAsync
    \/ InitializeAsyncAgain(FALSE)
    \/ InitTimeoutFires
    \/ InitFinally
    \/ \E resp \in ShutdownResponses : InitColdStartResponse(resp)
    \/ SyncTimerTick
    \/ \E resp \in ShutdownResponses : SpecFetchResponse("plain", resp)
    \/ Shutdown
    \/ Check("checkGate", User("u1", "a@x"), "g1")

ShutdownSpec == ShutdownInit /\ [][ShutdownNext]_vars

\* C34: from shutdown() until the next initializeAsync call the server is
\* not ready: neither the end of an initialization that was in flight nor
\* the initTimeoutMs timer makes it ready again.
C34_NotReadyAfterShutdown == shutdownCalled => ~ready

\* shutdown was called while init awaited its cold-start fetch and no
\* initializeAsync call followed; the fetch was answered, and a checkGate
\* has just been evaluated against the catalog it brought
C34_CheckServedAfterShutdown ==
    /\ shutdownCalled
    /\ options.initTimeoutMs = 0
    /\ options.bootstrapValues = NoBootstrap
    /\ ready
    /\ last.op = "checkGate"
    /\ last.error = ""
    /\ returned.value = TRUE
    /\ returned.reason = "Network"

-----------------------------------------------------------------------------
\* Timers (specification WatchdogSpec)

\* C35: each poller has at most one live interval timer, and has one exactly
\* when its handle is set: init, the pollers' ticks, the watchdog of a check
\* call and shutdown, in any order, never leave an interval behind that no
\* handle names; a poller that is disabled has no handle and no interval.
C35_OneTimerPerPoller ==
    /\ liveTimers.sync = (IF syncTimer = NULL THEN 0 ELSE 1)
    /\ liveTimers.idLists = (IF idListsSyncTimer = NULL THEN 0 ELSE 1)
    /\ options.disableRulesetsSync => syncTimer = NULL
    /\ options.disableIdListsSync => idListsSyncTimer = NULL

\* on a server that was initialized and not shut down, the watchdog of a
\* check call has just cleared the rulesets poller's interval and created a
\* new one, while the ID-lists poller kept its own
C35_WatchdogReplacedTimer ==
    /\ initialized
    /\ ~shutdownCalled
    /\ last.op = "checkGate"
    /\ last.cleared = {"sync"}
    /\ last.armed = {"sync"}
    /\ liveTimers = [sync |-> 1, idLists |-> 1]

(***************************************************************************)
(* The progress specification: servers with the rulesets poller on that    *)
(* start cold, from bootstrap values, or beside a data adapter that is not *)
(* polled for rulesets.  The network fails, answers with older payloads or *)
(* answers with PayloadB (time 200, newer than anything else the store is  *)
(* given).  Timers fire and requests settle: every step is weakly fair.    *)
(***************************************************************************)
ProgressProfiles ==
    {Options(b, NULL, FALSE, TRUE, DefaultIntervals, "none") :
        b \in {NoBootstrap, Bootstrap("json", PayloadA)}}
    \cup {Options(NoBootstrap, "adapter", FALSE, TRUE, DefaultIntervals, "none")}

ProgressAdapterResponses ==
    {Response("error", PayloadA), Response("noResult", PayloadA),
     Response("json", PayloadA)}

ProgressStaleResponses ==
    {Response("error", PayloadA), Response("noResponse", PayloadA),
     Response("json", PayloadA), Response("json", PayloadNoUpdates)}

ProgressFreshResponse == Response("json", PayloadB)

ProgressResponses == ProgressStaleResponses \cup {ProgressFreshResponse}

ProgressInit == Constructed(ProgressProfiles)

ProgressAdapterInitialized == \E resolved \in BOOLEAN : InitAdapterInitialized(resolved)

ProgressAdapterFetched == \E resp \in ProgressAdapterResponses : InitAdapterFetched(resp)

ProgressColdStartResponse == \E resp \in ProgressResponses : InitColdStartResponse(resp)

ProgressFetchResponse == \E resp \in ProgressResponses : SpecFetchResponse("plain", resp)

ProgressNext ==
    \/ InitializeAsync
    \/ InitFinally
    \/ ProgressAdapterInitialized
    \/ ProgressAdapterFetched
    \/ ProgressColdStartResponse
    \/ SyncTimerTick
    \/ ProgressFetchResponse

ProgressSpec ==
    /\ ProgressInit /\ [][ProgressNext]_vars
    /\ WF_vars(InitializeAsync)
    /\ WF_vars(InitFinally)
    /\ WF_vars(ProgressAdapterInitialized)
    /\ WF_vars(ProgressAdapterFetched)
    /\ WF_vars(ProgressColdStartResponse)
    /\ WF_vars(SyncTimerTick)
    /\ WF_vars(ProgressFetchResponse)

\* the network gives a syncValues something else than the fresh payload
StaleNetworkAnswer ==
    \E resp \in ProgressStaleResponses :
        InitColdStartResponse(resp) \/ SpecFetchResponse("plain", resp)

\* the fresh payload is installed from the network
FreshInstalled == lastUpdateTime = PayloadB.time[1] /\ initReason = "Network"

-----------------------------------------------------------------------------
\* Termination of the evaluator (specification EvalSpec)

\* C37: every checkGate, getConfig and getLayer that reaches the evaluator
\* comes back from its recursion through gate conditions and delegates
\* with an evaluation: no catalog makes the nesting of calls grow until the
\* call stack is exhausted.
C37_RecursionBounded ==
    (/\ last.op \in {"checkGate", "getConfig", "getLayer"}
     /\ last.error = "")
        => ~returned.threw

\* the experiment c1 of the installed catalog delegates to itself, and a
\* getConfig of it has just exhausted the call stack
C37_SelfDelegatingConfigAsked ==
    /\ last.op = "getConfig"
    /\ last.error = ""
    /\ last.name = "c1"
    /\ store.configs = SpecMap(PayloadCycle.dynamic_configs)
    /\ gateOverrides = EmptyMap /\ configOverrides = EmptyMap
    /\ returned.threw

-----------------------------------------------------------------------------
\* Frames of the two syncs (specification ColdStartSpec)

\* the steps in which _process may run: on the bootstrap values, on what
\* the data adapter holds, on a download_config_specs response
SpecUpdateOps == {"initializeAsync", "initAdapterFetched", "initColdStart",
                  "specFetchResponse"}

\* C38: a step in which a spec update may run (bootstrap, adapter, network)
\* leaves idLists as it was, and a step in which an ID-list sync takes an
\* answer (the adapter's lists, a manifest with its removals, a chunk)
\* leaves gates, configs, layers, experimentToLayer, lastUpdateTime,
\* initialUpdateTime and initReason as they were.
C38_DisjointEffects ==
    [][/\ last'.op \in SpecUpdateOps => store'.idLists = store.idLists
       /\ last'.op \in IdListAnswerOps
            => /\ StoreMaps(store') = StoreMaps(store)
               /\ lastUpdateTime' = lastUpdateTime
               /\ initialUpdateTime' = initialUpdateTime
               /\ initReason' = initReason]_vars

\* the poller's fetch has just installed a payload from the network while
\* list1 holds an id: the list is still there
C38_CatalogReplacedBesideLists ==
    /\ last.op = "specFetchResponse"
    /\ last.processed = "true"
    /\ "list1" \in DOMAIN store.idLists
    /\ store.idLists["list1"].ids = {"a"}
    /\ StoreMaps(store) = MapsOf(PayloadA)

(***************************************************************************)
(* The timeout specification: servers with initTimeoutMs whose init waits  *)
(* for the network or for a data adapter, or installs bootstrap values;    *)
(* the timer fires before, between or after the steps of init, and the     *)
(* host checks a gate, a config and a layer at any time.                   *)
(***************************************************************************)
TimeoutProfiles ==
    {WithInitTimeout(Options(NoBootstrap, a, FALSE, TRUE, DefaultIntervals, "none")) :
        a \in {NULL, "adapter"}}
    \cup {WithInitTimeout(Options(Bootstrap("json", PayloadA), NULL, FALSE, TRUE,
                                  DefaultIntervals, "none"))}

TimeoutResponses == {Response("error", PayloadA), Response("json", PayloadA)}

TimeoutChecks == {<<"checkGate", "g1">>, <<"getConfig", "c1">>, <<"getLayer", "l1">>}

TimeoutInit == Constructed(TimeoutProfiles)

TimeoutNext ==
    \/ InitializeAsync
    \/ InitTimeoutFires
    \/ \E resolved \in BOOLEAN : InitAdapterInitialized(resolved)
    \/ \E resp \in TimeoutResponses : InitAdapterFetched(resp)
    \/ \E resp \in TimeoutResponses : InitColdStartResponse(resp)
    \/ InitFinally
    \/ SyncTimerTick
    \/ \E resp \in TimeoutResponses : SpecFetchResponse("plain", resp)
    \/ \E c \in TimeoutChecks : Check(c[1], User("u1", "a@x"), c[2])

TimeoutSpec == TimeoutInit /\ [][TimeoutNext]_vars

\* C39: when the initTimeoutMs timer fires, the server is ready and the
\* promise of initializeAsync is settled, wherever the store's init is
\* suspended, and init stays where it is; a check made while no payload
\* was accepted (initReason Uninitialized) is not refused and returns the
\* default-false evaluation with reason Uninitialized; the suspended init
\* goes on afterwards.
C39_ReadyAtTimeout ==
    [][/\ last'.op = "initTimeout"
            => /\ ready' /\ ~pendingInitPromise'
               /\ initPc' = initPc
               /\ store' = store /\ initReason' = initReason
       /\ (initPc' # "none" /\ initTimeouts' = 0) => ready'
       /\ (last'.op \in {"checkGate", "getConfig", "getLayer"} /\ ready
           /\ initReason = "Uninitialized")
            => /\ last'.error = ""
               /\ ~returned'.threw
               /\ returned'.value = FALSE
               /\ returned'.reason = "Uninitialized"
               /\ returned'.rule_id = ""]_vars

\* the timer fired while init awaited its cold-start fetch; the fetch has
\* now been answered and init installed the catalog on the ready server
C39_CatalogInstalledAfterTimeout ==
    /\ options.initTimeoutMs > 0
    /\ initTimeouts = 0
    /\ last.op = "initColdStart"
    /\ last.processed = "true"
    /\ ready
    /\ initReason = "Network"
    /\ StoreMaps(store) = MapsOf(PayloadA)

-----------------------------------------------------------------------------
(***************************************************************************)
(* The delegation specification: a server bootstrapped with experiments of *)
(* passPercentage 0, 50 and 100 and a disabled one, and with layers and a  *)
(* dynamic config whose rules, of passPercentage 0, 50 or 100, delegate to *)
(* them or to a name the store does not hold; hosts check every name for   *)
(* four users.                                                             *)
(***************************************************************************)
DelegateExperiment(name, enabled, passPercentage) ==
    ConfigSpec(name, enabled, <<ConfigRule("r" \o name, passPercentage, <<Public>>, NULL, NULL)>>)

Delegating(name, passPercentage, configDelegate) ==
    ConfigSpec(name, TRUE,
               <<ConfigRule("ra" \o name, 100, <<UserField("email", "eq", "a")>>, NULL, NULL),
                 ConfigRule("rd" \o name, passPercentage, <<Public>>, configDelegate, "grpD")>>)

DelegateConfigs ==
    <<DelegateExperiment("e0", TRUE, 0), DelegateExperiment("e50", TRUE, 50),
      DelegateExperiment("e100", TRUE, 100), DelegateExperiment("ed", FALSE, 100),
      Delegating("c0to100", 0, "e100")>>

DelegateLayers ==
    <<Delegating("k0to50", 0, "e50"), Delegating("k50to50", 50, "e50"),
      Delegating("k100to50", 100, "e50"), Delegating("k0to100", 0, "e100"),
      Delegating("k100to0", 100, "e0"), Delegating("k0toDisabled", 0, "ed"),
      Delegating("k0toMissing", 0, "missing")>>

PayloadDelegates ==
    Payload(TRUE, <<100>>, <<>>, DelegateConfigs, DelegateLayers,
            <<LayerEntry("k0to50", <<"e50">>)>>)

DelegateProfiles ==
    {Options(Bootstrap("json", PayloadDelegates), NULL, TRUE, TRUE, DefaultIntervals, "none")}

DelegateUsers == {User("u1", "a"), User("u1", "x"), User("u2", "x"), User("u3", "x")}

DelegateChecks ==
    {<<"getConfig", DelegateConfigs[i].name>> : i \in DOMAIN DelegateConfigs}
    \cup {<<"getLayer", DelegateLayers[i].name>> : i \in DOMAIN DelegateLayers}

DelegateInit == Constructed(DelegateProfiles)

DelegateNext ==
    \/ InitializeAsync
    \/ InitFinally
    \/ \E c \in DelegateChecks, user \in DelegateUsers : Check(c[1], user, c[2])

DelegateSpec == DelegateInit /\ [][DelegateNext]_vars

\* the first passing rule of the spec of the last check names a
\* configDelegate that the store holds
DelegatedCheck ==
    /\ Checked
    /\ initialized
    /\ FirstHolding(RuleCheckedSpec) # 0
    /\ RuleCheckedSpec.rules[FirstHolding(RuleCheckedSpec)].configDelegate
          \in DOMAIN store.configs

DelegatingRule == RuleCheckedSpec.rules[FirstHolding(RuleCheckedSpec)]

\* whether the user of the last check passes the one public rule of an
\* enabled experiment
PassesExperiment(experiment) ==
    sha256Hash(<<experiment.salt, experiment.rules[1].salt, CheckedUser>>)
        % CONDITION_SEGMENT_COUNT < experiment.rules[1].passPercentage * 100

\* C40: when the first passing rule names a configDelegate that the store
\* holds, value and json_value of the result are those of the delegate
\* evaluated for the user (false and its defaultValue when it is disabled
\* or the user falls outside its rule's percentage, true and its rule's
\* returnValue otherwise), whatever the passPercentage of the delegating
\* rule, 0 included.
C40_DelegateAloneDecides ==
    DelegatedCheck
    => LET Decided(experiment, passes) ==
               /\ returned.value = passes
               /\ returned.json_value = IF passes THEN experiment.rules[1].returnValue
                                        ELSE experiment.defaultValue
               /\ returned.rule_id = IF ~experiment.enabled THEN "disabled"
                                     ELSE experiment.rules[1].id
               /\ returned.config_delegate = DelegatingRule.configDelegate
           Expected(experiment) ==
               Decided(experiment, experiment.enabled /\ PassesExperiment(experiment))
       IN  Expected(store.configs[DelegatingRule.configDelegate])

\* a rule of passPercentage 0 delegated to an experiment that the user
\* passes: the result is true with the experiment's returnValue
C40_ZeroPercentRuleDelegated ==
    /\ DelegatedCheck
    /\ DelegatingRule.passPercentage = 0
    /\ DelegatingRule.configDelegate = "e50"
    /\ returned.value
    /\ returned.json_value = <<"returnValue", "re50">>

=============================================================================
